---- MODULE Spec2Model ----
(***************************************************************************)
(* The three loplugin passes of compilerplugins/clang:                     *)
(*   PassParamsByRef (passparamsbyref.cxx), CommaOperator                   *)
(*   (commaoperator.cxx) and RedundantCast (redundantcast.cxx).             *)
(* Each pass is a RecursiveASTVisitor; the AST it walks is the input, drawn *)
(* node by node from bounded sets.  The passes share no state, so each has  *)
(* a specification of its own over the module's variables.                  *)
(***************************************************************************)
EXTENDS Integers, Sequences, FiniteSets, TLC

(***************************************************************************)
(* Bounds of the model.                                                     *)
(***************************************************************************)
MaxParams == 2
MaxInits == 1
MaxDecls == 2
MaxBody == 2
MaxArgDepth == 1
MaxMacroNest == 1
MaxChain == 2

MaxCallArgs == 2
MaxCommas == 3
MaxDepth == 2
MaxTree == 3

VARIABLES
    mbInsideFunctionDecl,   \* PassParamsByRef::mbInsideFunctionDecl
    mParamExclusions,       \* PassParamsByRef::mParamExclusions
    stack,                  \* declarations whose traversal is in progress
    report,                 \* diagnostics of PassParamsByRef, in emission order
    nDecl,                  \* declarations handed to the traversal so far
    nVisit,                 \* assignment nodes visited so far
    last,                   \* the declaration the traversal dealt with last
    plugin,                 \* the pass that visits node
    node,                   \* the AST node handed to a Visit function
    env,                    \* language mode and rewriter of the invocation
    pc,                     \* "start", then "done" once the Visit has returned
    diag,                   \* diagnostics the Visit reported, in order
    rewrites,               \* replacements the Visit made through the rewriter
    ret                     \* what the call returned: "none" until it returns

paramsVars == <<mbInsideFunctionDecl, mParamExclusions, stack, report, nDecl,
                nVisit, last>>

visitVars == <<plugin, node, env, pc, diag, rewrites, ret>>

vars == <<paramsVars, visitVars>>

(***************************************************************************)
(* PassParamsByRef: types, declarations                                     *)
(***************************************************************************)

\* What isFat reads of a QualType: is it a record type, its qualified class
\* name, is it incomplete, its size in chars.
\* The types isFat is asked about.  A type that is no record type is named
\* by what it is; size is what getTypeSizeInChars gives, which isFat does not
\* ask for when the type is incomplete.
RecordNames ==
    {"com::sun::star::uno::Reference", "com::sun::star::uno::Sequence",
     "rtl::OString", "rtl::OUString", "rtl::Reference",
     "Small", "ns::rtl::OUString", "rtl::OUStringBuffer"}

QualTypes ==
    { t \in [record : BOOLEAN,
             name : RecordNames \cup {"int", "rtl::OUString *",
                                      "rtl::OUString &", "enum E"},
             incomplete : BOOLEAN, size : {1, 64, 65, 128}] :
        t.record = (t.name \in RecordNames) }

AllowList ==
    {"com::sun::star::uno::Reference", "com::sun::star::uno::Sequence",
     "rtl::OString", "rtl::OUString", "rtl::Reference"}

FatSize == 64

IsFatFrom64(type) ==
    IF ~type.record THEN FALSE
    ELSE IF type.name \in AllowList THEN TRUE
    ELSE IF type.incomplete THEN FALSE
    ELSE type.size >= FatSize

IsFatWhenIncomplete(type) ==
    IF ~type.record THEN FALSE
    ELSE IF type.name \in AllowList THEN TRUE
    ELSE type.size > FatSize

isFat(type) ==
    IF ~type.record THEN FALSE
    ELSE IF type.name \in AllowList THEN TRUE
    ELSE IF type.incomplete THEN FALSE
    ELSE type.size > FatSize

\* A constructor initializer: is it a member initializer, is its init (parens
\* and implicit casts ignored) a CXXConstructExpr, with how many arguments,
\* what its first argument (the init itself when it is no construction) calls,
\* and which parameter that call consumes (0: no parameter).
MoveInit(i) ==
    [member |-> TRUE, construct |-> TRUE, nArgs |-> 1, callee |-> "std::move",
     arg |-> i]

\* The initializer that moves a parameter into a member, and the initializers
\* that differ from it in one respect.
InitShapes ==
    {MoveInit(i) : i \in 0..MaxParams}
        \cup {[MoveInit(1) EXCEPT !.member = FALSE],
              [MoveInit(1) EXCEPT !.construct = FALSE],
              [MoveInit(1) EXCEPT !.nArgs = 2],
              [MoveInit(1) EXCEPT !.callee = "other"],
              [MoveInit(0) EXCEPT !.callee = "none"]}

\* What the traversal reads of a declaration when it reaches it.
DeclHeads ==
    { h \in [kind : {"Function", "CXXMethod", "CXXConstructor"}, ignored : BOOLEAN, deleted : BOOLEAN,
             templSpec : BOOLEAN, nOverridden : 0..1, hasBody : BOOLEAN,
             nParams : 0..MaxParams] :
        /\ (h.kind # "CXXMethod" => h.nOverridden = 0)
        /\ (h.deleted => ~h.hasBody) }

\* What the flagging decision reads of it afterwards: the types of its
\* parameters, its constructor initializers, whether its canonical
\* declaration is at another location.
DeclDetails(h) ==
    { t \in [params : [1..h.nParams ->
                           {[record |-> TRUE, name |-> "rtl::OUString",
                             incomplete |-> FALSE, size |-> 8],
                            [record |-> TRUE, name |-> "Small",
                             incomplete |-> FALSE, size |-> 64]}],
             inits : UNION { [1..n -> InitShapes] : n \in 0..MaxInits },
             canonElsewhere : BOOLEAN] :
        /\ (h.kind # "CXXConstructor" \/ ~h.hasBody => t.inits = <<>>)
        /\ \A k \in DOMAIN t.inits : t.inits[k].arg <= h.nParams }

NoDetails == [params |-> <<>>, inits |-> <<>>, canonElsewhere |-> FALSE]

NoDecl ==
    [kind |-> "Function", ignored |-> FALSE, deleted |-> FALSE,
     templSpec |-> FALSE, nOverridden |-> 0, hasBody |-> FALSE, nParams |-> 0]

(***************************************************************************)
(* PassParamsByRef::TraverseFunctionDecl                                    *)
(***************************************************************************)

\* dyn_cast<CXXMethodDecl>(functionDecl): a constructor is a method too.
isCXXMethodDecl(d) == d.kind \in {"CXXMethod", "CXXConstructor"}

\* The early returns of TraverseFunctionDecl.
Skipped(d) ==
    \/ d.ignored
    \/ d.deleted \/ d.templSpec
    \/ (isCXXMethodDecl(d) /\ d.nOverridden > 0)
    \/ ~d.hasBody

\* bFoundMove with the isMemberInitializer test inverted.
FoundMoveInBaseInit(d, t) ==
    /\ d.kind = "CXXConstructor"
    /\ \E k \in DOMAIN t.inits :
         /\ ~t.inits[k].member
         /\ t.inits[k].construct /\ t.inits[k].nArgs = 1
         /\ t.inits[k].callee = "std::move"

\* bFoundMove: some member initializer constructs from one argument that is a
\* call of std::move.  The loop does not look at what is moved.
FoundMove(d, t) ==
    /\ d.kind = "CXXConstructor"
    /\ \E k \in DOMAIN t.inits :
         /\ t.inits[k].member
         /\ t.inits[k].construct /\ t.inits[k].nArgs = 1
         /\ t.inits[k].callee = "std::move"

Warning(id, i) ==
    [sev |-> "Warning",
     msg |-> "passing %0 by value, rather pass by const lvalue reference",
     decl |-> id, parm |-> i]

Note(id) ==
    [sev |-> "Note", msg |-> "function is declared here:", decl |-> id,
     parm |-> 0]

\* Is parameter i of d reported, given the exclusions recorded.
Flagged(id, d, t, excl, i) ==
    /\ isFat(t.params[i])
    /\ <<id, i>> \notin excl
    /\ ~FoundMove(d, t)

\* The loop with the note emitted whether or not the canonical declaration
\* is elsewhere.
RECURSIVE ParamDiagsNoteAlways(_, _, _, _, _)
ParamDiagsNoteAlways(id, d, t, excl, i) ==
    IF i > d.nParams THEN <<>>
    ELSE (IF Flagged(id, d, t, excl, i)
          THEN <<Warning(id, i), Note(id)>>
          ELSE <<>>)
         \o ParamDiagsNoteAlways(id, d, t, excl, i + 1)

\* The diagnostics of the loop over the parameters from index i on.
RECURSIVE ParamDiags(_, _, _, _, _)
ParamDiags(id, d, t, excl, i) ==
    IF i > d.nParams THEN <<>>
    ELSE (IF Flagged(id, d, t, excl, i)
          THEN <<Warning(id, i)>>
                   \o (IF t.canonElsewhere THEN <<Note(id)>> ELSE <<>>)
          ELSE <<>>)
         \o ParamDiags(id, d, t, excl, i + 1)

\* A declaration whose traversal is in progress: is it inside
\* PassParamsByRef::TraverseFunctionDecl (checked), what the exclusion set
\* held when its traversal started (stale), the parameters the visits have
\* recorded since (rec), the parameters its body assigns by `p = ...`
\* (assigned).
Frame(id, d, checked, stale) ==
    [id |-> id, d |-> d, checked |-> checked, stale |-> stale, rec |-> {},
     assigned |-> {}, compound |-> {}]

\* The declaration dealt with last, with what became of it (outcome) and the
\* exclusion set at that moment (excl).
Last(id, d, t, outcome, excl, f) ==
    [id |-> id, d |-> d, t |-> t, outcome |-> outcome, excl |-> excl,
     stale |-> f.stale, rec |-> f.rec, assigned |-> f.assigned,
     compound |-> f.compound]

NoFrame == Frame(0, NoDecl, FALSE, {})

\* The exclusion set when the clear() is left out.
NotCleared(excl) == excl

\* mParamExclusions.clear() at the start of a checked function.
Cleared(excl) == {}

\* TraverseFunctionDecl up to the call of the base class traversal.
EnterTraverseFunctionDecl(d) ==
    /\ nDecl' = nDecl + 1
    /\ IF Skipped(d)
       THEN /\ last' = Last(nDecl + 1, d, NoDetails, "skipped",
                            mParamExclusions, NoFrame)
            /\ UNCHANGED <<mbInsideFunctionDecl, mParamExclusions, stack>>
       ELSE /\ mbInsideFunctionDecl' = TRUE
            /\ mParamExclusions' = Cleared(mParamExclusions)
            /\ stack' = Append(stack, Frame(nDecl + 1, d, TRUE,
                                             mParamExclusions))
            /\ last' = Last(nDecl + 1, d, NoDetails, "entered",
                            mParamExclusions', NoFrame)
    /\ UNCHANGED <<report, nVisit>>

\* RecursiveASTVisitor::TraverseCXXMethodDecl / TraverseCXXConstructorDecl,
\* which the pass does not override: the declaration's subtree is walked.
EnterBaseTraversal(d) ==
    /\ nDecl' = nDecl + 1
    /\ stack' = Append(stack, Frame(nDecl + 1, d, FALSE, mParamExclusions))
    /\ last' = Last(nDecl + 1, d, NoDetails, "base", mParamExclusions, NoFrame)
    /\ UNCHANGED <<mbInsideFunctionDecl, mParamExclusions, report, nVisit>>

\* Every kind of function declaration dispatched to TraverseFunctionDecl.
OverriddenForEveryKind(kind) == TRUE

\* The Traverse*Decl function RecursiveASTVisitor::TraverseDecl picks for a
\* declaration: the pass overrides TraverseFunctionDecl alone.
Overridden(kind) == kind = "Function"

\* The declarations that can stand where the traversal is: any at the top
\* level; inside a function body a block-scope function declaration (which
\* has no body) or a member of a local class.
Nestable(d) ==
    IF stack = <<>> THEN TRUE
    ELSE /\ stack[Len(stack)].d.hasBody
         /\ (d.kind = "Function" => ~d.hasBody)

TraverseDecl ==
    \E d \in DeclHeads :
        /\ nDecl < MaxDecls
        /\ Nestable(d)
        /\ IF Overridden(d.kind)
           THEN EnterTraverseFunctionDecl(d)
           ELSE EnterBaseTraversal(d)

\* TraverseFunctionDecl called on a declaration directly, whatever its kind.
CallTraverseFunctionDecl ==
    \E d \in DeclHeads :
        /\ nDecl < MaxDecls
        /\ stack = <<>>
        /\ EnterTraverseFunctionDecl(d)

\* TraverseFunctionDecl after the base class traversal has returned.
EndTraverseFunctionDecl ==
    /\ stack # <<>>
    /\ LET f == stack[Len(stack)] IN
        /\ f.checked
        /\ \E t \in DeclDetails(f.d) :
            /\ report' = report \o ParamDiags(f.id, f.d, t, mParamExclusions, 1)
            /\ last' = Last(f.id, f.d, t, "checked", mParamExclusions, f)
        /\ mbInsideFunctionDecl' = FALSE
        /\ stack' = SubSeq(stack, 1, Len(stack) - 1)
    /\ UNCHANGED <<mParamExclusions, nDecl, nVisit>>

EndBaseTraversal ==
    /\ stack # <<>>
    /\ LET f == stack[Len(stack)] IN
        /\ ~f.checked
        /\ last' = Last(f.id, f.d, NoDetails, "traversed", mParamExclusions, f)
        /\ stack' = SubSeq(stack, 1, Len(stack) - 1)
    /\ UNCHANGED <<mbInsideFunctionDecl, mParamExclusions, report, nDecl,
                   nVisit>>

(***************************************************************************)
(* PassParamsByRef::VisitBinAssign, VisitCXXOperatorCallExpr                *)
(***************************************************************************)

\* An operand as the visitors read it: not a DeclRefExpr ("none"), a
\* DeclRefExpr of a variable that is no parameter ("Var"), or a DeclRefExpr of
\* parameter parm = <<declaration, index>> ("ParmVar").
NoParm == <<0, 0>>

OperandsOf(f) ==
    {[ref |-> "none", parm |-> NoParm], [ref |-> "Var", parm |-> NoParm]}
        \cup {[ref |-> "ParmVar", parm |-> <<f.id, i>>] :
                 i \in 1..f.d.nParams}

\* The operands an expression can name where the traversal is: the parameters
\* of the innermost function being traversed, when it has a body.
Operands ==
    IF stack = <<>> THEN OperandsOf([id |-> 0, d |-> NoDecl])
    ELSE OperandsOf(stack[Len(stack)])

\* Where expressions can stand: in a function body, or outside every function
\* (the initializer of a variable at namespace scope).
InExpression == IF stack = <<>> THEN TRUE ELSE stack[Len(stack)].d.hasBody

\* The overloaded compound assignment operators.
CompoundAssignmentKinds ==
    {"OO_SlashEqual", "OO_StarEqual", "OO_MinusEqual", "OO_PlusEqual",
     "OO_PercentEqual", "OO_AmpEqual", "OO_PipeEqual", "OO_CaretEqual",
     "OO_LessLessEqual", "OO_GreaterGreaterEqual"}

\* VisitBinAssign with the test of mbInsideFunctionDecl inverted.
BinAssignExclusionsOutside(inside, excl, lhs) ==
    IF inside THEN excl
    ELSE IF lhs.ref = "ParmVar" THEN excl \cup {lhs.parm}
    ELSE excl

\* The exclusion set after VisitBinAssign has seen an assignment to lhs.
BinAssignExclusions(inside, excl, lhs) ==
    IF ~inside THEN excl
    ELSE IF lhs.ref = "ParmVar" THEN excl \cup {lhs.parm}
    ELSE excl

\* The operators VisitCXXOperatorCallExpr takes for an assignment.
AssignmentLike(op) ==
    op \in {"OO_Equal", "OO_SlashEqual", "OO_StarEqual", "OO_MinusEqual",
            "OO_PlusEqual"}

\* The exclusion set after VisitCXXOperatorCallExpr has seen op(arg0, ...).
OperatorCallExclusions(inside, excl, op, arg0) ==
    IF ~inside THEN excl
    ELSE IF ~AssignmentLike(op) THEN excl
    ELSE IF arg0.ref = "none" THEN excl
    ELSE IF arg0.ref = "ParmVar" THEN excl \cup {arg0.parm}
    ELSE excl

\* The bookkeeping of a visit: every function whose traversal is in progress
\* notes what the visit recorded, the innermost one what its body assigns.
Noted(new, plain, compound) ==
    [k \in DOMAIN stack |->
        [stack[k] EXCEPT
            !.rec = @ \cup new,
            !.assigned = IF k = Len(stack) THEN @ \cup plain ELSE @,
            !.compound = IF k = Len(stack) THEN @ \cup compound ELSE @]]

VisitBinAssign ==
    \E lhs \in Operands :
        /\ nVisit < MaxBody
        /\ InExpression
        /\ nVisit' = nVisit + 1
        /\ mParamExclusions' =
               BinAssignExclusions(mbInsideFunctionDecl, mParamExclusions, lhs)
        /\ stack' = Noted(mParamExclusions' \ mParamExclusions,
                          IF lhs.ref = "ParmVar" THEN {lhs.parm} ELSE {},
                          {})
        /\ UNCHANGED <<mbInsideFunctionDecl, report, nDecl, last>>

VisitCXXOperatorCallExpr ==
    \E op \in CompoundAssignmentKinds
                    \cup {"OO_Equal", "OO_Plus", "OO_EqualEqual"},
       arg0 \in Operands :
        /\ nVisit < MaxBody
        /\ InExpression
        /\ nVisit' = nVisit + 1
        /\ mParamExclusions' =
               OperatorCallExclusions(mbInsideFunctionDecl, mParamExclusions,
                                      op, arg0)
        /\ stack' = Noted(mParamExclusions' \ mParamExclusions,
                          IF op = "OO_Equal" /\ arg0.ref = "ParmVar"
                          THEN {arg0.parm} ELSE {},
                          IF op \in CompoundAssignmentKinds /\ arg0.ref = "ParmVar"
                          THEN {arg0.parm} ELSE {})
        /\ UNCHANGED <<mbInsideFunctionDecl, report, nDecl, last>>

(***************************************************************************)
(* Source locations                                                         *)
(***************************************************************************)

\* A location as SourceManager classifies it: `args` nested macro argument
\* expansions around a location that is in a macro body expansion (body) or
\* in a file.
Locs == [args : 0..MaxArgDepth, body : BOOLEAN]

FileLoc == [args |-> 0, body |-> FALSE]

isMacroArgExpansion(l) == l.args > 0

isMacroBodyExpansion(l) == l.args = 0 /\ l.body

getImmediateMacroCallerLoc(l) ==
    IF l.args > 0 THEN [l EXCEPT !.args = @ - 1] ELSE l

\* while (isMacroArgExpansion(l)) l = getImmediateMacroCallerLoc(l);
RECURSIVE MacroCallerLoc(_)
MacroCallerLoc(l) ==
    IF isMacroArgExpansion(l) THEN MacroCallerLoc(getImmediateMacroCallerLoc(l))
    ELSE l

(***************************************************************************)
(* CommaOperator::VisitBinaryOperator                                       *)
(***************************************************************************)

\* The statement a node hangs under and the place it has there; "null" when
\* parentStmt finds none.
Ctx(kind, role) == [kind |-> kind, role |-> role]

NullCtx == Ctx("null", "none")

\* Where a full expression can stand.
StatementCtxs ==
    {Ctx("CompoundStmt", "stmt"),
     Ctx("IfStmt", "cond"), Ctx("IfStmt", "body"),
     Ctx("WhileStmt", "cond"), Ctx("WhileStmt", "body"),
     Ctx("ForStmt", "init"), Ctx("ForStmt", "cond"), Ctx("ForStmt", "inc"),
     Ctx("ForStmt", "body"),
     Ctx("ReturnStmt", "value")}

\* A binary operator stands as a full expression, under the ExprWithCleanups
\* of a full expression, or inside another expression.
BinaryOperators ==
    { n \in [class : {"BinaryOperator"}, ignored : BOOLEAN,
             opcode : {"BO_Comma", "BO_Assign", "BO_Add"},
             locStart : Locs, operatorLoc : Locs, locEnd : Locs,
             spellIgnored : BOOLEAN,
             parent : StatementCtxs
                        \cup {NullCtx, Ctx("ExprWithCleanups", "sub"),
                              Ctx("ParenExpr", "sub"),
                              Ctx("BinaryOperator", "operand")},
             parent2 : StatementCtxs \cup {NullCtx}] :
        n.parent.kind # "ExprWithCleanups" => n.parent2 = NullCtx }

SuppressedByStartAlone(n) ==
    isMacroBodyExpansion(n.locStart) /\ n.spellIgnored

\* The FD_SET heuristic: start, operator and end are macro body expansions
\* and the spelling location of the operator is ignored.
CommaMacroSuppressed(n) ==
    /\ isMacroBodyExpansion(n.locStart)
    /\ isMacroBodyExpansion(n.operatorLoc)
    /\ isMacroBodyExpansion(n.locEnd)
    /\ n.spellIgnored

CommaWarning ==
    [sev |-> "Warning", msg |-> "comma operator hides code",
     loc |-> "getOperatorLoc"]

Result(out, crashed) == [out |-> out, crashed |-> crashed, rw |-> <<>>]

AcceptedParentNoCleanups(n) ==
    /\ n.parent.kind # "null"
    /\ n.parent.kind \in {"ParenExpr", "BinaryOperator", "ForStmt"}

\* The parents under which a comma is accepted.
AcceptedParent(n) ==
    /\ n.parent.kind # "null"
    /\ \/ n.parent.kind = "ParenExpr"
       \/ n.parent.kind = "BinaryOperator"
       \/ n.parent.kind = "ForStmt"
       \/ (n.parent.kind = "ExprWithCleanups" /\ n.parent2.kind = "ForStmt")

\* isa<ForStmt>(parent2) is applied to a null pointer when the
\* ExprWithCleanups has no parent statement: the behaviour is undefined (an
\* assertion failure, a crash, or either answer).
NullParent2(n) ==
    /\ n.parent.kind = "ExprWithCleanups"
    /\ n.parent2.kind = "null"

\* What VisitBinaryOperator can do at n.
VisitBinaryOperatorResults(n) ==
    IF n.ignored THEN {Result(<<>>, FALSE)}
    ELSE IF CommaMacroSuppressed(n) THEN {Result(<<>>, FALSE)}
    ELSE IF n.opcode # "BO_Comma" THEN {Result(<<>>, FALSE)}
    ELSE IF NullParent2(n)
         THEN {Result(<<>>, TRUE), Result(<<>>, FALSE),
               Result(<<CommaWarning>>, FALSE)}
    ELSE IF AcceptedParent(n) THEN {Result(<<>>, FALSE)}
    ELSE {Result(<<CommaWarning>>, FALSE)}

Returned(r) ==
    /\ diag' = r.out
    /\ rewrites' = r.rw
    /\ pc' = IF r.crashed THEN "crashed" ELSE "done"
    /\ ret' = IF r.crashed THEN ret ELSE "true"

VisitBinaryOperator ==
    /\ plugin = "commaoperator"
    /\ pc = "start"
    /\ node.class = "BinaryOperator"
    /\ \E r \in VisitBinaryOperatorResults(node) : Returned(r)
    /\ UNCHANGED <<plugin, node, env, paramsVars>>

\* An expression statement `a, b, c, ...` of up to MaxCommas commas, outermost
\* comma first: the outermost comma is the statement (or stands under the
\* ExprWithCleanups that is), every other comma is the left operand of the
\* comma before it.  The commas of one statement share their file and their
\* macro expansion; `at` is the comma the traversal has reached.
CommaChains ==
    { [class |-> "CommaChain", at |-> 1,
       commas |-> [i \in 1..k |->
                      IF i = 1 THEN o
                      ELSE [o EXCEPT !.parent = Ctx("BinaryOperator", "operand"),
                                     !.parent2 = NullCtx]]] :
        k \in 1..MaxCommas,
        o \in { n \in BinaryOperators :
                  /\ n.opcode = "BO_Comma"
                  /\ (IF n.parent.kind = "ExprWithCleanups"
                      THEN n.parent2 ELSE n.parent).role \in {"stmt", "body"} } }

\* The traversal reaches the comma `at`: VisitBinaryOperator is called for it
\* and the traversal goes on into its left operand.  The warnings are kept
\* with the comma they are given for.
TraverseCommaChain ==
    /\ plugin = "commaoperator"
    /\ pc = "start"
    /\ node.class = "CommaChain"
    /\ \E r \in VisitBinaryOperatorResults(node.commas[node.at]) :
          /\ diag' = diag \o [j \in DOMAIN r.out |->
                                 [comma |-> node.at, d |-> r.out[j]]]
          /\ pc' = IF r.crashed THEN "crashed"
                   ELSE IF node.at = Len(node.commas) THEN "done"
                   ELSE "start"
          /\ node' = IF ~r.crashed /\ node.at < Len(node.commas)
                     THEN [node EXCEPT !.at = @ + 1]
                     ELSE node
          /\ ret' = IF r.crashed THEN ret ELSE "true"
    /\ UNCHANGED <<plugin, env, rewrites, paramsVars>>

(***************************************************************************)
(* RedundantCast: types, value kinds and sub-expressions                    *)
(***************************************************************************)

\* A QualType is the sequence of its levels, outermost first: pointers and
\* references down to a terminal type.  c and v are the local qualifiers of
\* the level, td the typedef the level is spelled with ("" when none).
Lv(k, c, v, td) == [k |-> k, c |-> c, v |-> v, td |-> td]

Plain(k) == <<Lv(k, FALSE, FALSE, "")>>

Ptr(t) == <<Lv("ptr", FALSE, FALSE, "")>> \o t

LRef(t) == <<Lv("lref", FALSE, FALSE, "")>> \o t

RRef(t) == <<Lv("rref", FALSE, FALSE, "")>> \o t

Const(t) == [t EXCEPT ![1].c = TRUE]

Volatile(t) == [t EXCEPT ![1].v = TRUE]

Typedef(name, t) == [t EXCEPT ![1].td = name]

getCanonicalType(t) == [i \in DOMAIN t |-> [t[i] EXCEPT !.td = ""]]

getUnqualifiedType(t) == [t EXCEPT ![1].c = FALSE, ![1].v = FALSE]

\* QualType::getDesugaredType removes the sugar of the top level.
getDesugaredType(t) == [t EXCEPT ![1].td = ""]

\* c1.getTypePtr() == c3.getTypePtr()
SameTypePtr(c1, c3) == getUnqualifiedType(c1) = getUnqualifiedType(c3)

hasLocalQualifiers(t) == t[1].c \/ t[1].v

isPointerType(t) == t[1].k = "ptr"

isReferenceType(t) == t[1].k \in {"lref", "rref"}

isRecordType(t) == t[1].k = "record"

isArrayType(t) == t[1].k = "array"

isVoidPointer(type) == IF isPointerType(type) THEN type[2].k = "void" ELSE FALSE

isObjectType(t) == ~(isReferenceType(t) \/ t[1].k \in {"function", "void"})

\* In C++ an enumeration type is not an integral type.
isIntegralType(t) == t[1].k \in {"bool", "int", "long"}

isRealFloatingType(t) == t[1].k = "double"

IsNeverBuiltin(t) == FALSE

isBuiltinType(t) ==
    t[1].k \in {"void", "bool", "int", "long", "double", "nullptr_t"}

\* loplugin::TypeCheck(t).Typedef() and t->getAs<TypedefType>(): the typedef
\* the type is spelled with, "" for none.
getAsTypedefType(t) == t[1].td

\* The type and the value kind of an explicit cast, from its type as written.
getType(tw) ==
    IF isReferenceType(tw) THEN Tail(tw)
    ELSE IF isRecordType(tw) THEN tw
    ELSE getUnqualifiedType(tw)

getValueKind(tw) ==
    IF tw[1].k = "lref" THEN "VK_LValue"
    ELSE IF tw[1].k = "rref" THEN "VK_XValue"
    ELSE "VK_RValue"

\* Sema::IsQualificationConversion(c1, c3, false, _) on canonical types.
RECURSIVE UnwrapSimilarPointerTypes(_, _, _, _)
UnwrapSimilarPointerTypes(from, to, previousToQualsIncludeConst, unwrappedAny) ==
    IF isPointerType(from) /\ isPointerType(to)
    THEN LET f == Tail(from)
             t == Tail(to)
         IN  IF (f[1].c /\ ~t[1].c) \/ (f[1].v /\ ~t[1].v) THEN FALSE
             ELSE IF (f[1].c # t[1].c \/ f[1].v # t[1].v)
                        /\ ~previousToQualsIncludeConst THEN FALSE
             ELSE UnwrapSimilarPointerTypes(
                      f, t, previousToQualsIncludeConst /\ t[1].c, TRUE)
    ELSE unwrappedAny /\ SameTypePtr(from, to)

IsQualificationConversion(c1, c3) ==
    IF SameTypePtr(c1, c3) THEN FALSE
    ELSE UnwrapSimilarPointerTypes(c1, c3, TRUE, FALSE)

\* The expression under a cast, from getSubExpr() inwards: wrappers
\* (parentheses, implicit casts, commas, whose right operand follows) and
\* then the expression they wrap.
ArithmeticOpcodes ==
    {"BO_Mul", "BO_Div", "BO_Rem", "BO_Add", "BO_Sub", "BO_Shl", "BO_Shr",
     "BO_And", "BO_Xor", "BO_Or"}

BinaryOpcodes == ArithmeticOpcodes \cup {"BO_Comma", "BO_Assign", "BO_LT"}

Shapes ==
    {<<"IntegerLiteral">>, <<"DeclRefExpr">>, <<"CallExpr">>,
     <<"BO_Add">>, <<"BO_Assign">>, <<"UnaryOperator">>,
     <<"ConditionalOperator">>,
     <<"ParenExpr", "IntegerLiteral">>,
     <<"ImplicitCastExpr", "DeclRefExpr">>,
     <<"BO_Comma", "BO_Shl">>, <<"BO_Comma", "IntegerLiteral">>,
     <<"ParenExpr", "BO_Comma", "ImplicitCastExpr", "BO_Mul">>}

RECURSIVE IgnoreParenImpCasts(_)
IgnoreParenImpCasts(e) ==
    IF Head(e) \in {"ParenExpr", "ImplicitCastExpr"}
    THEN IgnoreParenImpCasts(Tail(e))
    ELSE e

RECURSIVE getSubExprAsWritten(_)
getSubExprAsWritten(e) ==
    IF Head(e) = "ImplicitCastExpr" THEN getSubExprAsWritten(Tail(e)) ELSE e

IsArithmeticOpNotThroughComma(expr) ==
    LET e == IgnoreParenImpCasts(expr)
    IN  IF Head(e) \in BinaryOpcodes
        THEN Head(e) \in ArithmeticOpcodes
        ELSE Head(e) \in {"UnaryOperator", "ConditionalOperator",
                          "BinaryConditionalOperator"}

RECURSIVE isArithmeticOp(_)
isArithmeticOp(expr) ==
    LET e == IgnoreParenImpCasts(expr)
    IN  IF Head(e) \in BinaryOpcodes
        THEN IF Head(e) \in ArithmeticOpcodes THEN TRUE
             ELSE IF Head(e) = "BO_Comma" THEN isArithmeticOp(Tail(e))
             ELSE FALSE
        ELSE Head(e) \in {"UnaryOperator", "ConditionalOperator",
                          "BinaryConditionalOperator"}

\* The expression that gives a written sub-expression its type and value
\* kind: parentheses and the left operands of commas do not.
RECURSIVE ValueExpr(_)
ValueExpr(e) ==
    IF Head(e) \in {"ParenExpr", "BO_Comma"} THEN ValueExpr(Tail(e))
    ELSE Head(e)

\* The sub-expression of a cast: type and value kind of the sub-expression as
\* written, and the shape of getSubExpr().  A prvalue of non-class type has
\* no qualifiers; literals and operators have the type and value kind the
\* language gives them.
WellFormedSub(s) ==
    LET x == ValueExpr(getSubExprAsWritten(s.shape))
    IN  /\ (s.k = "VK_RValue" /\ ~isRecordType(s.t)) => ~hasLocalQualifiers(s.t)
        /\ x = "IntegerLiteral" => (s.k = "VK_RValue" /\ s.t \in {Plain("int"), Plain("long")})
        /\ x \in ArithmeticOpcodes =>
              (s.k = "VK_RValue" /\ s.t[1].k \in {"int", "long", "double", "ptr"})
        /\ x \in {"UnaryOperator", "ConditionalOperator", "InitListExpr"} =>
              s.k = "VK_RValue"
        /\ x \in {"DeclRefExpr", "BO_Assign"} => s.k = "VK_LValue"
        /\ isReferenceType(s.t) = FALSE

Subs(types, shapes) ==
    { s \in [t : types, k : {"VK_RValue", "VK_LValue", "VK_XValue"},
             shape : shapes] :
        WellFormedSub(s) }

\* The type of getSubExpr(): an implicit lvalue-to-rvalue conversion on top
\* of the written sub-expression drops its qualifiers.
getSubExprType(s) ==
    IF Head(s.shape) = "ImplicitCastExpr" THEN getUnqualifiedType(s.t) ELSE s.t

(***************************************************************************)
(* RedundantCast: the casts visited                                         *)
(***************************************************************************)

ArithmeticSubTypes ==
    {Plain("int"), Const(Plain("int")), Typedef("MyInt", Plain("int")),
     Typedef("OtherInt", Plain("int")), Plain("long"), Plain("bool"),
     Plain("double"), Plain("enum")}

PointerSubTypes ==
    {Ptr(Plain("void")), Typedef("HANDLE", Ptr(Plain("void"))),
     Ptr(Typedef("VOID", Plain("void"))), Ptr(Plain("int")),
     Ptr(Const(Plain("int")))}

\* Casts the compiler accepts connect types of one family.
Family(t) ==
    LET r == IF isReferenceType(t) THEN Tail(t) ELSE t
    IN  IF r[1].k \in {"ptr", "nullptr_t"} THEN "pointer"
        ELSE IF r[1].k = "record" THEN "record"
        ELSE "arithmetic"

\* Start and end of the cast and what ignoreLocation says of the spelling
\* location the visit asks about.
Spans == [locStart : Locs, locEnd : Locs, spellIgnored : BOOLEAN]

BodyLoc == [args |-> 0, body |-> TRUE]

FewSpans ==
    { s \in Spans :
        /\ s.locStart.body = s.locEnd.body
        /\ s.locStart.args = s.locEnd.args
        /\ s.spellIgnored => s.locStart = BodyLoc }

CXXStaticCastExprs ==
    { n \in [class : {"CXXStaticCastExpr"}, ignored : BOOLEAN,
             sub : Subs(ArithmeticSubTypes \cup PointerSubTypes
                            \cup {Plain("record"), Const(Plain("record")),
                                  Plain("nullptr_t")},
                        Shapes),
             tw : ArithmeticSubTypes \cup PointerSubTypes
                    \cup {Plain("record"), Const(Plain("record")),
                          Volatile(Plain("int")), Const(Volatile(Plain("int"))),
                          LRef(Plain("int")), LRef(Const(Plain("int"))),
                          Typedef("PVOID", Ptr(Plain("void"))),
                          LRef(Ptr(Plain("void"))),
                          LRef(Plain("record")), LRef(Const(Plain("record"))),
                          RRef(Plain("record"))},
             span : FewSpans, macroName : {"assert", "other"}] :
        /\ Family(n.sub.t) = Family(n.tw)
        /\ n.ignored => (n.span.locStart = FileLoc /\ n.macroName = "other")
        /\ n.macroName = "assert" => n.span.locStart.body }

CStyleCastExprs ==
    { n \in [class : {"CStyleCastExpr"}, ignored : BOOLEAN, uno : BOOLEAN,
             sub : Subs(ArithmeticSubTypes \cup PointerSubTypes, Shapes),
             tw : ArithmeticSubTypes \cup PointerSubTypes, span : Spans] :
        /\ Family(n.sub.t) = Family(n.tw)
        /\ (n.ignored \/ n.uno) =>
              (n.span.locStart = FileLoc /\ n.span.locEnd = FileLoc
                  /\ ~n.span.spellIgnored /\ ~(n.ignored /\ n.uno)) }

FunctionalWrittenTypes ==
    {Plain("int"), Typedef("MyInt", Plain("int")),
     Typedef("OtherInt", Plain("int")), Plain("bool"), Plain("double"),
     Plain("enum"), Plain("record"), Typedef("HANDLE", Ptr(Plain("void")))}

\* Locations of the sub-expression of a functional cast: the macros its start
\* is expanded from, innermost first, and whether its end is in a macro.
CXXFunctionalCastExprs ==
    { n \in [class : {"CXXFunctionalCastExpr"}, ignored : BOOLEAN,
             sub : Subs(FunctionalWrittenTypes \cup {Ptr(Plain("void"))},
                        {<<"IntegerLiteral">>, <<"DeclRefExpr">>, <<"CallExpr">>,
                         <<"BO_Add">>, <<"InitListExpr">>,
                         <<"ImplicitCastExpr", "DeclRefExpr">>}),
             tw : FunctionalWrittenTypes, span : FewSpans,
             macroName : {"CPPUNIT_ASSERT", "other"},
             subLocEndMacro : BOOLEAN,
             subLocStart :
                 UNION { [1..m -> [name : {"FD_ISSET", "other"},
                                   atStart : BOOLEAN]] :
                         m \in 0..MaxMacroNest }] :
        /\ Family(n.sub.t) = Family(n.tw)
        /\ n.ignored => (n.span.locStart = FileLoc /\ n.subLocStart = <<>>
                            /\ ~n.subLocEndMacro)
        /\ n.span.locStart = FileLoc => n.macroName = "other" }

ReinterpretTypes ==
    {Ptr(Plain("void")), Typedef("HANDLE", Ptr(Plain("void"))),
     Ptr(Const(Plain("void"))), Ptr(Plain("int")), Ptr(Plain("function")),
     Plain("long")}

CXXReinterpretCastExprs ==
    { n \in [class : {"CXXReinterpretCastExpr"}, ignored : BOOLEAN,
             sub : Subs(ReinterpretTypes,
                        {<<"DeclRefExpr">>, <<"ImplicitCastExpr", "DeclRefExpr">>,
                         <<"CallExpr">>}),
             tw : ReinterpretTypes, span : Spans,
             tok : {"reinterpret_cast", "other"},
             tokSpelling : {"reinterpret_cast", "other"},
             replaceText : BOOLEAN] :
        /\ ~n.span.spellIgnored
        /\ n.sub.k # "VK_XValue"
        /\ n.ignored => (n.span.locStart = FileLoc /\ n.span.locEnd = FileLoc) }

\* The static_cast under a const_cast: its type as written and the type of
\* its sub-expression as written.
ConstCastTypes ==
    {Ptr(Plain("int")), Ptr(Const(Plain("int"))), Ptr(Volatile(Plain("int"))),
     Ptr(Ptr(Const(Plain("int")))), Ptr(Ptr(Plain("int")))}

NoDce == [tw |-> <<>>, subt |-> <<>>]

CXXConstCastExprs ==
    { n \in [class : {"CXXConstCastExpr"}, ignored : BOOLEAN,
             sub : Subs(ConstCastTypes \cup {Plain("int"), Const(Plain("int"))},
                        {<<"DeclRefExpr">>, <<"CallExpr">>,
                         <<"CXXStaticCastExpr">>,
                         <<"ParenExpr", "CXXStaticCastExpr">>}),
             tw : ConstCastTypes \cup {LRef(Plain("int")), RRef(Plain("int"))},
             dce : [tw : ConstCastTypes,
                    subt : ConstCastTypes \cup {Plain("nullptr_t")}]
                       \cup {NoDce},
             span : FewSpans] :
        /\ IF ValueExpr(n.sub.shape) = "CXXStaticCastExpr"
           THEN /\ n.dce # NoDce
                /\ n.sub.t = getType(n.dce.tw)
                /\ n.sub.k = getValueKind(n.dce.tw)
           ELSE n.dce = NoDce
        /\ isPointerType(n.tw) = isPointerType(n.sub.t)
        /\ n.ignored => n.span.locStart = FileLoc }

\* The const_casts under an implicit cast, outermost first: each is the
\* sub-expression of the one before it once parentheses and implicit casts
\* are ignored.  A const_cast to a pointer type has a pointer prvalue as its
\* sub-expression (here a variable read through an lvalue-to-rvalue
\* conversion), a const_cast to a reference type an lvalue.
ChainPointerTypes ==
    {Ptr(Plain("record")), Ptr(Const(Plain("record"))),
     Ptr(Volatile(Plain("record")))}

\* An implicit conversion of a pointer adds qualifiers to the pointee and
\* drops none.
ImplicitlyConverts(from, to) ==
    (from[2].c => to[2].c) /\ (from[2].v => to[2].v)

ChainObjectTypes == {Plain("int"), Const(Plain("int"))}

ChainConstCasts ==
    { c \in [tw : ChainPointerTypes \cup {LRef(Plain("int")), LRef(Const(Plain("int")))},
             sub : Subs(ChainPointerTypes \cup ChainObjectTypes,
                        {<<"DeclRefExpr">>, <<"CallExpr">>,
                         <<"ImplicitCastExpr", "DeclRefExpr">>})] :
        /\ isPointerType(c.tw) = isPointerType(c.sub.t)
        /\ isPointerType(c.tw) = (Head(c.sub.shape) = "ImplicitCastExpr")
        /\ isReferenceType(c.tw) => c.sub.k = "VK_LValue" }

\* An implicit cast: its kind, its type, whether the type of getSubExpr() is
\* a pointer type, the const_casts and the expression under it, and the
\* locations of that expression.  The expression that ends the chain is a
\* reinterpret_cast, a static_cast (with whether its own sub-expression is a
\* void pointer once parentheses and implicit casts are ignored) or anything
\* else.
ImplicitCastExprs ==
    { n \in [class : {"ImplicitCastExpr"}, ignored : BOOLEAN,
             castKind : {"CK_NoOp", "CK_BitCast", "CK_DerivedToBase",
                         "CK_UncheckedDerivedToBase", "CK_LValueToRValue"},
             t : ChainPointerTypes \cup ChainObjectTypes
                    \cup {Ptr(Const(Volatile(Plain("record")))),
                          Ptr(Plain("void")), Ptr(Const(Plain("void")))},
             subPointer : BOOLEAN,
             chain : UNION { [1..len -> ChainConstCasts] : len \in 0..MaxChain },
             e : [class : {"CXXReinterpretCastExpr", "DeclRefExpr"},
                  subVoidPointer : {FALSE}]
                    \cup [class : {"CXXStaticCastExpr"},
                          subVoidPointer : BOOLEAN],
             span : FewSpans] :
        /\ n.subPointer = isPointerType(n.t)
        /\ \A i \in DOMAIN n.chain :
              isPointerType(n.chain[i].tw) = isPointerType(n.t)
        /\ (isPointerType(n.t) /\ n.chain # <<>>) =>
              ImplicitlyConverts(n.chain[1].tw, n.t)
        /\ \A i \in DOMAIN n.chain :
              (isPointerType(n.t) /\ i < Len(n.chain)) =>
                  ImplicitlyConverts(n.chain[i + 1].tw, n.chain[i].sub.t)
        /\ isVoidPointer(n.t) => n.castKind = "CK_BitCast"
        /\ n.castKind = "CK_BitCast" => isVoidPointer(n.t)
        /\ n.castKind \in {"CK_DerivedToBase", "CK_UncheckedDerivedToBase"}
              => isPointerType(n.t)
        /\ n.e.class # "CXXStaticCastExpr" => n.span.locStart = FileLoc
        /\ n.span.locStart.args = 0
        /\ n.ignored => (n.chain = <<>> /\ n.e.class = "DeclRefExpr") }

\* What a call argument, the argument of delete, or an operand of a binary
\* operator is: whether its type is a pointer type, and the expressions it is
\* written with, outermost first.  The three visits read no location but the
\* one ignoreLocation is asked about.
ErasingOperands ==
    [pointer : BOOLEAN,
     shape : {<<"CXXConstCastExpr">>, <<"ParenExpr", "CXXConstCastExpr">>,
              <<"ImplicitCastExpr", "ParenExpr", "CXXConstCastExpr">>,
              <<"CStyleCastExpr", "CXXConstCastExpr">>,
              <<"DeclRefExpr">>, <<"ImplicitCastExpr", "DeclRefExpr">>}]

\* Calls: whether the callee is a function named directly, whether the
\* function called is variadic, the number of its declared parameters, and
\* the arguments.
CallExprs ==
    { n \in [class : {"CallExpr"}, ignored : BOOLEAN, direct : BOOLEAN,
             variadic : BOOLEAN, numParams : 0..MaxCallArgs,
             args : UNION { [1..k -> ErasingOperands] : k \in 0..MaxCallArgs },
             span : FewSpans] :
        /\ IF n.variadic THEN Len(n.args) >= n.numParams
           ELSE Len(n.args) = n.numParams
        /\ n.ignored => n.span.locStart = FileLoc }

CXXDeleteExprs ==
    { n \in [class : {"CXXDeleteExpr"}, ignored : BOOLEAN,
             argument : ErasingOperands, span : FewSpans] :
        /\ n.argument.pointer
        /\ n.ignored => n.span.locStart = FileLoc }

\* The binary operators RedundantCast has a Visit function for.
PointerOpcodes ==
    {"BO_Sub", "BO_LT", "BO_GT", "BO_LE", "BO_GE", "BO_EQ", "BO_NE"}

PointerBinaryOperators ==
    { n \in [class : {"BinaryOperator"}, ignored : BOOLEAN,
             opcode : PointerOpcodes \cup {"BO_Add", "BO_Assign"},
             lhs : ErasingOperands, rhs : ErasingOperands, span : FewSpans] :
        /\ n.ignored => n.span.locStart = FileLoc
        /\ n.opcode \notin {"BO_Sub", "BO_Add"} => n.lhs.pointer = n.rhs.pointer
        /\ n.opcode = "BO_Sub" => (n.rhs.pointer => n.lhs.pointer)
        /\ n.opcode = "BO_Add" => ~(n.lhs.pointer /\ n.rhs.pointer) }

CastExprs ==
    CXXStaticCastExprs \cup CStyleCastExprs \cup CXXFunctionalCastExprs
        \cup CXXReinterpretCastExprs \cup CXXConstCastExprs
        \cup ImplicitCastExprs \cup CallExprs \cup CXXDeleteExprs
        \cup PointerBinaryOperators

(***************************************************************************)
(* RedundantCast: the Visit functions                                       *)
(***************************************************************************)

Diag(msg, args) ==
    [sev |-> "Warning", msg |-> msg, loc |-> "getExprLoc", args |-> args]

printExprValueKind(k) ==
    CASE k = "VK_RValue" -> "prvalue"
      [] k = "VK_LValue" -> "lvalue"
      [] k = "VK_XValue" -> "xvalue"

IsOkWithoutLiteralTest(t1, t2, subExpr) ==
    ~( /\ isIntegralType(t1) \/ isRealFloatingType(t1)
       /\ \/ (t1 # t2 /\ (getAsTypedefType(t1) # "" \/ getAsTypedefType(t2) # ""))
          \/ isArithmeticOp(subExpr) )

isOkToRemoveArithmeticCast(t1, t2, subExpr) ==
    ~( /\ isIntegralType(t1) \/ isRealFloatingType(t1)
       /\ \/ (t1 # t2 /\ (getAsTypedefType(t1) # "" \/ getAsTypedefType(t2) # ""))
          \/ isArithmeticOp(subExpr)
          \/ Head(IgnoreParenImpCasts(subExpr)) = "IntegerLiteral" )

canConstCastFromTo(k1, fromType, k2) ==
    \/ (k2 = "VK_LValue" /\ k1 = "VK_LValue")
    \/ (k2 = "VK_XValue" /\ (k1 # "VK_RValue" \/ isRecordType(fromType)))

NeverSuppressed(span) == FALSE

\* The FD_ISSET heuristic of VisitCStyleCastExpr over l1, l2 and l3;
\* getExprLoc() of a cast expression is its start.
CStyleMacroSuppressed(span) ==
    /\ isMacroBodyExpansion(MacroCallerLoc(span.locStart))
    /\ isMacroBodyExpansion(MacroCallerLoc(span.locStart))
    /\ isMacroBodyExpansion(MacroCallerLoc(span.locEnd))
    /\ span.spellIgnored

VisitCStyleCastExprResults(n) ==
    LET t1 == n.sub.t
        t2 == n.tw
    IN  IF n.ignored THEN {Result(<<>>, FALSE)}
        ELSE IF n.uno THEN {Result(<<>>, FALSE)}
        ELSE IF t1 # t2 THEN {Result(<<>>, FALSE)}
        ELSE IF ~isBuiltinType(t1) /\ t1[1].k # "enum" /\ getAsTypedefType(t1) = ""
             THEN {Result(<<>>, FALSE)}
        ELSE IF ~isOkToRemoveArithmeticCast(t1, t2, n.sub.shape)
             THEN {Result(<<>>, FALSE)}
        ELSE IF CStyleMacroSuppressed(n.span) THEN {Result(<<>>, FALSE)}
        ELSE {Result(<<Diag("redundant cstyle cast from %0 to %1", <<t1, t2>>)>>,
                     FALSE)}

\* Lines 408-434: both types are void pointers and a typedef is involved in
\* one of them only, or in both with different typedefs.  "null" when t2 is
\* not a pointer type and its PointerType is dereferenced all the same.
VoidPointerTypedefs(t1, t2) ==
    IF ~isVoidPointer(t1) THEN "same"
    ELSE IF hasLocalQualifiers(Tail(t1)) THEN "same"
    ELSE IF getAsTypedefType(t1) # ""
         THEN IF getAsTypedefType(t2) # getAsTypedefType(t1) THEN "differ" ELSE "same"
    ELSE IF getAsTypedefType(t2) # "" THEN "differ"
    ELSE IF ~isPointerType(t2) THEN "null"
    ELSE IF getAsTypedefType(Tail(t1)) # getAsTypedefType(Tail(t2)) THEN "differ"
    ELSE "same"

StaticCastDiag(msg, n, sel) ==
    Diag(msg, <<n.sub.t, printExprValueKind(n.sub.k), n.tw,
                printExprValueKind(getValueKind(n.tw)), sel>>)

RedundantWhateverValueKind(n) ==
    <<StaticCastDiag(
        "static_cast from %0 %1 to %2 %3 is redundant%select{| or should be written as an explicit construction of a temporary}4",
        n, 0)>>

\* Lines 435-464, reached once the casts that are not redundant are sorted out.
RedundantStaticCast(n) ==
    LET t1 == n.sub.t
        t2 == n.tw
        k1 == n.sub.k
        k3 == getValueKind(n.tw)
    IN  IF (k3 = "VK_XValue" /\ k1 # "VK_XValue")
              \/ (k3 = "VK_LValue" /\ k1 = "VK_XValue")
        THEN <<>>
        ELSE IF /\ t1[1].k = "bool" /\ t2[1].k = "bool"
                /\ isMacroBodyExpansion(n.span.locStart)
                /\ n.macroName = "assert"
             THEN <<>>
        ELSE <<StaticCastDiag(
                 "static_cast from %0 %1 to %2 %3 is redundant%select{| or should be written as an explicit construction of a temporary}4",
                 n,
                 IF k3 = "VK_RValue" /\ (k1 # "VK_RValue" \/ isRecordType(t1))
                 THEN 1 ELSE 0)>>

StaticResultsWithoutEarlierTests(n) ==
    IF n.ignored THEN {Result(<<>>, FALSE)}
    ELSE {Result(RedundantStaticCast(n), FALSE)}

VisitCXXStaticCastExprResults(n) ==
    LET t1 == n.sub.t
        t2 == n.tw
        nonClassObjectType ==
            isObjectType(t2) /\ ~(isRecordType(t2) \/ isArrayType(t2))
        t3 == getType(t2)
        c1 == getCanonicalType(t1)
        c3 == getCanonicalType(t3)
        td == VoidPointerTypedefs(t1, t2)
    IN  IF n.ignored THEN {Result(<<>>, FALSE)}
        ELSE IF nonClassObjectType /\ hasLocalQualifiers(t2)
             THEN {Result(
                      <<StaticCastDiag(
                          "in static_cast from %0 %1 to %2 %3, remove redundant top-level %select{const qualifier|volatile qualifier|const volatile qualifiers}4",
                          n,
                          (IF t2[1].c THEN 1 ELSE 0) + (IF t2[1].v THEN 2 ELSE 0) - 1)>>,
                      FALSE)}
        ELSE IF (IF nonClassObjectType
                      \/ ~canConstCastFromTo(n.sub.k, t1, getValueKind(t2))
                 THEN ~SameTypePtr(c1, c3) ELSE c1 # c3)
             THEN IF nonClassObjectType
                       \/ (~SameTypePtr(c1, c3) /\ ~IsQualificationConversion(c1, c3))
                  THEN {Result(<<>>, FALSE)}
                  ELSE {Result(
                           <<StaticCastDiag(
                               "static_cast from %0 %1 to %2 %3 should be written as const_cast",
                               n, 0)>>,
                           FALSE)}
        ELSE IF ~isOkToRemoveArithmeticCast(t1, t2, n.sub.shape)
             THEN {Result(<<>>, FALSE)}
        ELSE IF td = "differ" THEN {Result(<<>>, FALSE)}
        ELSE IF td = "null"
             THEN {Result(<<>>, TRUE), Result(<<>>, FALSE),
                   Result(RedundantStaticCast(n), FALSE)}
        ELSE {Result(RedundantStaticCast(n), FALSE)}

\* The token the rewriter would replace: at the start of the cast, or at its
\* spelling location when start and end are in macro bodies.
ResolvedToken(n) ==
    IF /\ isMacroBodyExpansion(MacroCallerLoc(n.span.locStart))
       /\ isMacroBodyExpansion(MacroCallerLoc(n.span.locEnd))
    THEN n.tokSpelling
    ELSE n.tok

RewritesAnyToken(n, e) == e.rewriter /\ n.replaceText

Rewrites(n, e) ==
    /\ e.rewriter
    /\ ResolvedToken(n) = "reinterpret_cast"
    /\ n.replaceText

Replacement == [text |-> "static_cast", len |-> "MeasureTokenLength"]

VisitCXXReinterpretCastExprResults(n, e) ==
    LET from == getSubExprType(n.sub)
        to == getType(n.tw)
    IN  IF n.ignored THEN {Result(<<>>, FALSE)}
        ELSE IF isVoidPointer(from)
             THEN IF (IF isPointerType(to) THEN ~isObjectType(Tail(to)) ELSE TRUE)
                  THEN {Result(<<>>, FALSE)}
                  ELSE IF Rewrites(n, e)
                       THEN {[out |-> <<>>, crashed |-> FALSE,
                              rw |-> <<Replacement>>]}
                  ELSE {Result(
                           <<Diag("reinterpret_cast from %0 to %1 can be simplified to static_cast",
                                  <<n.sub.t, to>>)>>,
                           FALSE)}
        ELSE IF isVoidPointer(to)
             THEN IF (IF isPointerType(from) THEN ~isObjectType(Tail(from)) ELSE TRUE)
                  THEN {Result(<<>>, FALSE)}
                  ELSE {Result(
                           <<Diag("reinterpret_cast from %0 to %1 can be simplified to static_cast or an implicit conversion",
                                  <<n.sub.t, to>>)>>,
                           FALSE)}
        ELSE {Result(<<>>, FALSE)}

isRedundantConstCast(n) ==
    /\ getCanonicalType(getType(n.tw)) = getCanonicalType(n.sub.t)
    /\ (getValueKind(n.tw) # "VK_XValue" \/ n.sub.k = "VK_XValue")

RedundantAtFirstLevelOnly(t1, isNullptr, t2, t3) ==
    \/ (t2[1].c /\ (isNullptr \/ ~t1[1].c) /\ ~t3[1].c)
    \/ (t2[1].v /\ (isNullptr \/ ~t1[1].v) /\ ~t3[1].v)

\* The loop of lines 550-579 over the pointer levels of the three types.
RECURSIVE RedundantCombination(_, _, _, _)
RedundantCombination(t1, isNullptr, t2, t3) ==
    IF \/ (t2[1].c /\ (isNullptr \/ ~t1[1].c) /\ ~t3[1].c)
       \/ (t2[1].v /\ (isNullptr \/ ~t1[1].v) /\ ~t3[1].v)
    THEN TRUE
    ELSE IF ~isNullptr /\ ~isPointerType(t1) THEN FALSE
    ELSE IF ~isPointerType(t2) THEN FALSE
    ELSE IF ~isPointerType(t3) THEN FALSE
    ELSE LET p1 == IF isNullptr THEN t1 ELSE Tail(t1)
         IN  RedundantCombination(
                 p1, IF isNullptr THEN TRUE ELSE p1[1].k = "nullptr_t",
                 Tail(t2), Tail(t3))

VisitCXXConstCastExprResults(n) ==
    IF n.ignored THEN {Result(<<>>, FALSE)}
    ELSE IF isRedundantConstCast(n)
         THEN {Result(
                  <<Diag("redundant const_cast from %0 %1 to %2 %3",
                         <<n.sub.t, printExprValueKind(n.sub.k), n.tw,
                           printExprValueKind(getValueKind(n.tw))>>)>>,
                  FALSE)}
    ELSE IF Head(IgnoreParenImpCasts(n.sub.shape)) = "CXXStaticCastExpr"
         THEN LET t1 == getCanonicalType(n.dce.subt)
                  t2 == getCanonicalType(getType(n.dce.tw))
                  t3 == getCanonicalType(getType(n.tw))
              IN  IF RedundantCombination(t1, t1[1].k = "nullptr_t", t2, t3)
                  THEN {Result(
                           <<Diag("redundant static_cast/const_cast combination from %0 via %1 to %2",
                                  <<n.dce.subt, n.dce.tw, n.tw>>)>>,
                           FALSE)}
                  ELSE {Result(<<>>, FALSE)}
    ELSE {Result(<<>>, FALSE)}

InAnyMacro(stk) == stk # <<>>

\* The loop of lines 634-646 over the macros the start of sub is expanded
\* from.
RECURSIVE InFdIsset(_)
InFdIsset(stk) ==
    IF stk # <<>> /\ Head(stk).atStart
    THEN IF Head(stk).name = "FD_ISSET" THEN TRUE ELSE InFdIsset(Tail(stk))
    ELSE FALSE

VisitCXXFunctionalCastExprResults(n) ==
    LET sub == getSubExprAsWritten(n.sub.shape)
        t1 == n.tw
        t2 == getDesugaredType(n.sub.t)
    IN  IF n.ignored THEN {Result(<<>>, FALSE)}
        ELSE IF \/ n.sub.k # "VK_RValue"
                \/ isRecordType(getType(n.tw))
                \/ Head(sub) \in {"InitListExpr", "CXXStdInitializerListExpr"}
             THEN {Result(<<>>, FALSE)}
        ELSE IF /\ isMacroArgExpansion(n.span.locStart)
                /\ n.macroName \in {"CPPUNIT_ASSERT", "CPPUNIT_ASSERT_MESSAGE"}
             THEN {Result(<<>>, FALSE)}
        ELSE IF n.subLocEndMacro /\ InFdIsset(n.subLocStart)
             THEN {Result(<<>>, FALSE)}
        ELSE IF t1 # t2 THEN {Result(<<>>, FALSE)}
        ELSE IF (getAsTypedefType(t1) # "" \/ getAsTypedefType(n.sub.t) # "")
                    /\ t1 # n.sub.t
             THEN {Result(<<>>, FALSE)}
        ELSE IF ~isOkToRemoveArithmeticCast(t1, t2, n.sub.shape)
             THEN {Result(<<>>, FALSE)}
        ELSE {Result(<<Diag("redundant functional cast from %0 to %1",
                            <<n.sub.t, t1>>)>>,
                     FALSE)}

\* QualType::isAtLeastAsQualifiedAs on the pointee types of two pointers.
isAtLeastAsQualifiedAs(t, other) ==
    (other[2].c => t[2].c) /\ (other[2].v => t[2].v)

DiagAt(msg, args, loc) ==
    [sev |-> "Warning", msg |-> msg, loc |-> loc, args |-> args]

CcLoc(i) ==
    <<"cc1.getExprLoc", "cc2.getExprLoc", "cc3.getExprLoc", "cc4.getExprLoc">>[i]

UltimatelyCastOutermostOnly(n, i) ==
    IF n.chain # <<>>
         /\ isAtLeastAsQualifiedAs(n.t, getSubExprType(n.chain[1].sub))
    THEN <<DiagAt("redundant const_cast from %0 to %1, result is ultimately implicitly cast to %2",
                  <<n.chain[1].sub.t, getType(n.chain[1].tw), n.t>>, CcLoc(1))>>
    ELSE <<>>

\* The while loops of lines 199-217 and 243-261: one warning for every
\* const_cast of the chain whose sub-expression's pointee is no more
\* qualified than the pointee of the implicit cast's type.
RECURSIVE UltimatelyCast(_, _)
UltimatelyCast(n, i) ==
    IF i > Len(n.chain) THEN <<>>
    ELSE LET cc == n.chain[i]
         IN  (IF isAtLeastAsQualifiedAs(n.t, getSubExprType(cc.sub))
              THEN <<DiagAt("redundant const_cast from %0 to %1, result is ultimately implicitly cast to %2",
                            <<cc.sub.t, getType(cc.tw), n.t>>, CcLoc(i))>>
              ELSE <<>>)
             \o UltimatelyCast(n, i + 1)

NoOpResultsOfAnyConstCast(n) ==
    IF n.chain # <<>>
    THEN <<DiagAt("redundant const_cast from %0 to %1, result is implicitly cast to %2",
                  <<n.chain[1].sub.t, getType(n.chain[1].tw), n.t>>,
                  "cc1.getExprLoc")>>
    ELSE <<>>

NoOpResults(n) ==
    IF (isPointerType(n.t) \/ isObjectType(n.t)) /\ n.chain # <<>>
    THEN LET e  == n.chain[1]
             t1 == getCanonicalType(getSubExprType(e.sub))
             t3 == getCanonicalType(n.t)
         IN  IF /\ ~isRedundantConstCast(e)
                /\ \/ SameTypePtr(t1, t3)
                   \/ /\ IsQualificationConversion(t1, t3)
                      /\ ~SameTypePtr(getCanonicalType(getType(e.tw)), t3)
             THEN <<DiagAt("redundant const_cast from %0 to %1, result is implicitly cast to %2",
                           <<e.sub.t, getType(e.tw), n.t>>, "cc1.getExprLoc")>>
             ELSE <<>>
    ELSE <<>>

BitCastResults(n) ==
    IF isVoidPointer(n.t) /\ n.subPointer
    THEN UltimatelyCast(n, 1)
         \o (IF n.e.class = "CXXReinterpretCastExpr"
             THEN <<DiagAt("redundant reinterpret_cast, result is implicitly cast to void pointer",
                           <<>>, "e.getExprLoc")>>
             ELSE IF /\ n.e.class = "CXXStaticCastExpr"
                     /\ n.e.subVoidPointer
                     /\ ~isMacroBodyExpansion(n.span.locStart)
             THEN <<DiagAt("redundant static_cast from void pointer, result is implicitly cast to void pointer",
                           <<>>, "e.getExprLoc")>>
             ELSE <<>>)
    ELSE <<>>

DerivedToBaseResults(n) ==
    IF isPointerType(n.t) THEN UltimatelyCast(n, 1) ELSE <<>>

VisitImplicitCastExprResults(n) ==
    IF n.ignored THEN {Result(<<>>, FALSE)}
    ELSE IF n.castKind = "CK_NoOp" THEN {Result(NoOpResults(n), FALSE)}
    ELSE IF n.castKind = "CK_BitCast" THEN {Result(BitCastResults(n), FALSE)}
    ELSE IF n.castKind \in {"CK_DerivedToBase", "CK_UncheckedDerivedToBase"}
    THEN {Result(DerivedToBaseResults(n), FALSE)}
    ELSE {Result(<<>>, FALSE)}

\* dyn_cast<CXXConstCastExpr>(e->IgnoreParenImpCasts()) != nullptr
IsConstCastUnderParenImpCasts(o) ==
    Head(IgnoreParenImpCasts(o.shape)) = "CXXConstCastExpr"

ArgLoc(i) ==
    <<"getArg(0).getExprLoc", "getArg(1).getExprLoc", "getArg(2).getExprLoc",
      "getArg(3).getExprLoc">>[i]

VisitCallExprResultsOfEveryArg(n) ==
    LET RECURSIVE Args(_)
        Args(i) ==
            IF i > Len(n.args) THEN <<>>
            ELSE (IF /\ n.args[i].pointer
                     /\ IsConstCastUnderParenImpCasts(n.args[i])
                  THEN <<DiagAt("redundant const_cast of variadic function argument",
                                <<>>, ArgLoc(i))>>
                  ELSE <<>>) \o Args(i + 1)
    IN  IF n.ignored THEN {Result(<<>>, FALSE)}
        ELSE IF ~n.direct \/ ~n.variadic THEN {Result(<<>>, FALSE)}
        ELSE {Result(Args(1), FALSE)}

\* The loop of lines 676-688 runs over the arguments from index getNumParams()
\* on (argument i of the source is n.args[i + 1]).
VisitCallExprResults(n) ==
    LET RECURSIVE Args(_)
        Args(i) ==
            IF i > Len(n.args) THEN <<>>
            ELSE (IF /\ n.args[i].pointer
                     /\ IsConstCastUnderParenImpCasts(n.args[i])
                  THEN <<DiagAt("redundant const_cast of variadic function argument",
                                <<>>, ArgLoc(i))>>
                  ELSE <<>>) \o Args(i + 1)
    IN  IF n.ignored THEN {Result(<<>>, FALSE)}
        ELSE IF ~n.direct \/ ~n.variadic \/ Len(n.args) <= n.numParams
        THEN {Result(<<>>, FALSE)}
        ELSE {Result(Args(n.numParams + 1), FALSE)}

VisitCXXDeleteExprResults(n) ==
    IF n.ignored THEN {Result(<<>>, FALSE)}
    ELSE IF IsConstCastUnderParenImpCasts(n.argument)
    THEN {Result(<<DiagAt("redundant const_cast in delete expression", <<>>,
                          "getArgument.getExprLoc")>>, FALSE)}
    ELSE {Result(<<>>, FALSE)}

visitBinOpResults(n) ==
    LET side(o, msg, loc) ==
            IF IsConstCastUnderParenImpCasts(o)
            THEN <<DiagAt(msg, <<n.opcode = "BO_Sub">>, loc)>>
            ELSE <<>>
    IN  IF n.ignored THEN {Result(<<>>, FALSE)}
        ELSE IF n.lhs.pointer /\ n.rhs.pointer
        THEN {Result(side(n.lhs, "redundant const_cast on lhs of pointer %select{comparison|subtraction}0 expression",
                          "getLHS.getExprLoc")
                     \o side(n.rhs, "redundant const_cast on rhs of pointer %select{comparison|subtraction}0 expression",
                             "getRHS.getExprLoc"), FALSE)}
        ELSE {Result(<<>>, FALSE)}

\* RedundantCast::run traverses only C++ translation units.
TraversesAlways(e) == TRUE

Traverses(e) == e.cplusplus

VisitCast(class, results) ==
    /\ plugin = "redundantcast"
    /\ Traverses(env)
    /\ pc = "start"
    /\ node.class = class
    /\ \E r \in results : Returned(r)
    /\ UNCHANGED <<plugin, node, env, paramsVars>>

VisitCStyleCastExpr ==
    VisitCast("CStyleCastExpr", VisitCStyleCastExprResults(node))

VisitCXXStaticCastExpr ==
    VisitCast("CXXStaticCastExpr", VisitCXXStaticCastExprResults(node))

VisitCXXReinterpretCastExpr ==
    VisitCast("CXXReinterpretCastExpr",
              VisitCXXReinterpretCastExprResults(node, env))

VisitCXXConstCastExpr ==
    VisitCast("CXXConstCastExpr", VisitCXXConstCastExprResults(node))

VisitCXXFunctionalCastExpr ==
    VisitCast("CXXFunctionalCastExpr", VisitCXXFunctionalCastExprResults(node))

VisitImplicitCastExpr ==
    VisitCast("ImplicitCastExpr", VisitImplicitCastExprResults(node))

VisitCallExpr ==
    VisitCast("CallExpr", VisitCallExprResults(node))

VisitCXXDeleteExpr ==
    VisitCast("CXXDeleteExpr", VisitCXXDeleteExprResults(node))

\* VisitBinSub, VisitBinLT, VisitBinGT, VisitBinLE, VisitBinGE, VisitBinEQ
\* and VisitBinNE call visitBinOp; the visitor's default for any other
\* opcode returns true.
VisitBinOp ==
    VisitCast("BinaryOperator",
              IF node.opcode \in PointerOpcodes THEN visitBinOpResults(node)
              ELSE {Result(<<>>, FALSE)})

\* One iteration of the loop of lines 550-579 with the three types stepped
\* down only while the source is not nullptr_t.
WalkSteppedUnlessNullptr(w) ==
    IF \/ (w.t2[1].c /\ (w.isNullptr \/ ~w.t1[1].c) /\ ~w.t3[1].c)
       \/ (w.t2[1].v /\ (w.isNullptr \/ ~w.t1[1].v) /\ ~w.t3[1].v)
    THEN [w EXCEPT !.redundant = TRUE, !.left = TRUE]
    ELSE IF w.isNullptr THEN w
    ELSE IF ~isPointerType(w.t1) THEN [w EXCEPT !.left = TRUE]
    ELSE LET p == [w EXCEPT !.t1 = Tail(w.t1),
                            !.isNullptr = Tail(w.t1)[1].k = "nullptr_t"]
         IN  IF ~isPointerType(w.t2) THEN [p EXCEPT !.left = TRUE]
             ELSE IF ~isPointerType(w.t3)
             THEN [p EXCEPT !.t2 = Tail(w.t2), !.left = TRUE]
             ELSE [p EXCEPT !.t2 = Tail(w.t2), !.t3 = Tail(w.t3)]

\* One iteration of the loop of lines 550-579: the walk as it stands at the
\* break (left) or at the end of the loop body.
WalkStepped(w) ==
    IF \/ (w.t2[1].c /\ (w.isNullptr \/ ~w.t1[1].c) /\ ~w.t3[1].c)
       \/ (w.t2[1].v /\ (w.isNullptr \/ ~w.t1[1].v) /\ ~w.t3[1].v)
    THEN [w EXCEPT !.redundant = TRUE, !.left = TRUE]
    ELSE IF ~w.isNullptr /\ ~isPointerType(w.t1) THEN [w EXCEPT !.left = TRUE]
    ELSE LET p == IF w.isNullptr THEN w
                  ELSE [w EXCEPT !.t1 = Tail(w.t1),
                                 !.isNullptr = Tail(w.t1)[1].k = "nullptr_t"]
         IN  IF ~isPointerType(w.t2) THEN [p EXCEPT !.left = TRUE]
             ELSE IF ~isPointerType(w.t3)
             THEN [p EXCEPT !.t2 = Tail(w.t2), !.left = TRUE]
             ELSE [p EXCEPT !.t2 = Tail(w.t2), !.t3 = Tail(w.t3)]

\* The for loop of VisitCXXConstCastExpr, one iteration at a time; the report
\* of lines 580-588 follows the loop.
WalkStep ==
    /\ plugin = "redundantcast"
    /\ pc = "start"
    /\ node.class = "QualifierWalk"
    /\ node' = WalkStepped(node)
    /\ pc' = IF node'.left THEN "done" ELSE "start"
    /\ diag' = IF node'.left /\ node'.redundant
               THEN <<Diag("redundant static_cast/const_cast combination from %0 via %1 to %2",
                           <<node.from, node.via, node.to>>)>>
               ELSE <<>>
    /\ ret' = IF node'.left THEN "true" ELSE ret
    /\ UNCHANGED <<plugin, env, rewrites, paramsVars>>

\* The while loops of lines 199-216 and 243-261, one iteration at a time: e
\* is the expression the loop stands at, outermost first.
ChainStep ==
    /\ plugin = "redundantcast"
    /\ pc = "start"
    /\ node.class = "ChainWalk"
    /\ IF Head(node.e) = "CXXConstCastExpr"
       THEN /\ node' = [node EXCEPT !.e = IgnoreParenImpCasts(Tail(node.e))]
            /\ UNCHANGED <<pc, ret>>
       ELSE /\ pc' = "done"
            /\ ret' = "true"
            /\ UNCHANGED node
    /\ UNCHANGED <<plugin, env, diag, rewrites, paramsVars>>

\* RedundantCast::run when the language is not C++: it returns without
\* traversing the translation unit.
RunWithoutTraversal ==
    /\ plugin = "redundantcast"
    /\ ~Traverses(env)
    /\ pc = "start"
    /\ pc' = "returned"
    /\ UNCHANGED <<plugin, node, env, diag, rewrites, ret, paramsVars>>

(***************************************************************************)
(* The passes                                                               *)
(***************************************************************************)

ParamsInit ==
    /\ mbInsideFunctionDecl = FALSE
    /\ mParamExclusions = {}
    /\ stack = <<>>
    /\ report = <<>>
    /\ nDecl = 0
    /\ nVisit = 0
    /\ last = Last(0, NoDecl, NoDetails, "none", {}, NoFrame)

Envs == [cplusplus : BOOLEAN, rewriter : BOOLEAN]

NoNode == [class |-> "none"]

\* No Visit function of CommaOperator or RedundantCast is under study.
VisitIdle ==
    /\ plugin = "passparamsbyref"
    /\ node = NoNode
    /\ env = [cplusplus |-> TRUE, rewriter |-> FALSE]
    /\ pc = "done"
    /\ diag = <<>>
    /\ rewrites = <<>>
    /\ ret = "none"

\* PassParamsByRef over a translation unit.
Init == ParamsInit /\ VisitIdle

Next ==
    \/ TraverseDecl /\ UNCHANGED visitVars
    \/ EndTraverseFunctionDecl /\ UNCHANGED visitVars
    \/ EndBaseTraversal /\ UNCHANGED visitVars
    \/ VisitBinAssign /\ UNCHANGED visitVars
    \/ VisitCXXOperatorCallExpr /\ UNCHANGED visitVars

Spec == Init /\ [][Next]_vars

\* TraverseFunctionDecl exercised on declarations of every kind.
NextHandler == Next \/ (CallTraverseFunctionDecl /\ UNCHANGED visitVars)

SpecHandler == Init /\ [][NextHandler]_vars

\* CommaOperator at one binary operator.
InitComma ==
    /\ ParamsInit
    /\ plugin = "commaoperator"
    /\ node \in BinaryOperators
    /\ env \in Envs
    /\ pc = "start"
    /\ diag = <<>>
    /\ rewrites = <<>>
    /\ ret = "none"

NextComma == VisitBinaryOperator

SpecComma == InitComma /\ [][NextComma]_vars

\* CommaOperator over one expression statement that is a chain of commas.
InitChain ==
    /\ ParamsInit
    /\ plugin = "commaoperator"
    /\ node \in CommaChains
    /\ env \in Envs
    /\ pc = "start"
    /\ diag = <<>>
    /\ rewrites = <<>>
    /\ ret = "none"

SpecChain == InitChain /\ [][TraverseCommaChain]_vars

\* RedundantCast at one explicit cast.
InitCast ==
    /\ ParamsInit
    /\ plugin = "redundantcast"
    /\ node \in CastExprs
    /\ env \in Envs
    /\ pc = "start"
    /\ diag = <<>>
    /\ rewrites = <<>>
    /\ ret = "none"

NextCast ==
    \/ VisitCStyleCastExpr
    \/ VisitCXXStaticCastExpr
    \/ VisitCXXReinterpretCastExpr
    \/ VisitCXXConstCastExpr
    \/ VisitCXXFunctionalCastExpr
    \/ VisitImplicitCastExpr
    \/ VisitCallExpr
    \/ VisitCXXDeleteExpr
    \/ VisitBinOp
    \/ RunWithoutTraversal

SpecCast == InitCast /\ [][NextCast]_vars

\* The loops of RedundantCast: the lock-step walk over three canonical types
\* of pointer depth up to MaxDepth, and the walk over an expression of up to
\* MaxTree parentheses, implicit casts and const_casts around a leaf.
InitWalk ==
    LET RECURSIVE Types(_)
        Types(d) ==
            IF d = 0
            THEN {Plain("int"), Const(Plain("int")), Volatile(Plain("int")),
                  Plain("nullptr_t")}
            ELSE Types(d - 1)
                    \cup { Ptr(t) : t \in Types(d - 1) }
                    \cup { Const(Ptr(t)) : t \in Types(d - 1) }
        RECURSIVE Trees(_)
        Trees(n) ==
            IF n = 0 THEN {<<"DeclRefExpr">>, <<"CXXReinterpretCastExpr">>}
            ELSE Trees(n - 1)
                    \cup { <<x>> \o t :
                             x \in {"ParenExpr", "ImplicitCastExpr",
                                    "CXXConstCastExpr"},
                             t \in Trees(n - 1) }
    IN  /\ ParamsInit
        /\ plugin = "redundantcast"
        /\ \/ \E t1, t2, t3 \in Types(MaxDepth) :
                 node = [class |-> "QualifierWalk", from |-> t1, via |-> t2,
                         to |-> t3, t1 |-> t1,
                         isNullptr |-> t1[1].k = "nullptr_t", t2 |-> t2,
                         t3 |-> t3, redundant |-> FALSE, left |-> FALSE]
           \/ \E t \in Trees(MaxTree) :
                 node = [class |-> "ChainWalk", sub |-> t,
                         e |-> IgnoreParenImpCasts(t)]
        /\ env = [cplusplus |-> TRUE, rewriter |-> FALSE]
        /\ pc = "start"
        /\ diag = <<>>
        /\ rewrites = <<>>
        /\ ret = "none"

\* Every loop that has been entered goes on until it is left.
SpecWalk ==
    InitWalk /\ [][WalkStep \/ ChainStep]_vars /\ WF_vars(WalkStep \/ ChainStep)

\* PassParamsByRef::isFat applied to one type.
InitFat ==
    /\ ParamsInit
    /\ plugin = "passparamsbyref"
    /\ node \in [class : {"QualType"}, type : QualTypes]
    /\ env = [cplusplus |-> TRUE, rewriter |-> FALSE]
    /\ pc = "start"
    /\ diag = <<>>
    /\ rewrites = <<>>
    /\ ret = "none"

CallIsFat ==
    /\ plugin = "passparamsbyref"
    /\ pc = "start"
    /\ node.class = "QualType"
    /\ ret' = IF isFat(node.type) THEN "true" ELSE "false"
    /\ pc' = "done"
    /\ UNCHANGED <<plugin, node, env, diag, rewrites, paramsVars>>

SpecFat == InitFat /\ [][CallIsFat]_vars

\* RedundantCast::isOkToRemoveArithmeticCast applied to the two types and the
\* sub-expression one of its callers hands it: the callers have found the
\* types equal up to typedefs and top-level qualifiers; a literal has the
\* type of its kind.
InitGate ==
    /\ ParamsInit
    /\ plugin = "redundantcast"
    /\ node \in
          { a \in [class : {"ArithmeticCastArgs"},
                   t1 : ArithmeticSubTypes \cup PointerSubTypes,
                   t2 : ArithmeticSubTypes \cup PointerSubTypes,
                   subExpr : Shapes \cup
                       {<<"FloatingLiteral">>, <<"CXXBoolLiteralExpr">>,
                        <<"ParenExpr", "FloatingLiteral">>,
                        <<"BinaryConditionalOperator">>, <<"BO_LT">>,
                        <<"BO_Comma", "DeclRefExpr">>,
                        <<"BO_Comma", "BO_Comma", "BO_Sub">>}] :
              LET x == ValueExpr(getSubExprAsWritten(a.subExpr))
              IN  /\ SameTypePtr(getCanonicalType(a.t1), getCanonicalType(a.t2))
                  /\ x = "IntegerLiteral" => a.t1 \in {Plain("int"), Plain("long")}
                  /\ x = "FloatingLiteral" => a.t1 = Plain("double")
                  /\ x = "CXXBoolLiteralExpr" => a.t1 = Plain("bool") }
    /\ env = [cplusplus |-> TRUE, rewriter |-> FALSE]
    /\ pc = "start"
    /\ diag = <<>>
    /\ rewrites = <<>>
    /\ ret = "none"

CallIsOkToRemoveArithmeticCast ==
    /\ plugin = "redundantcast"
    /\ pc = "start"
    /\ node.class = "ArithmeticCastArgs"
    /\ ret' = IF isOkToRemoveArithmeticCast(node.t1, node.t2, node.subExpr)
              THEN "true" ELSE "false"
    /\ pc' = "done"
    /\ UNCHANGED <<plugin, node, env, diag, rewrites, paramsVars>>

SpecGate == InitGate /\ [][CallIsOkToRemoveArithmeticCast]_vars

\* Either pass at one node.
SpecVisit == (InitComma \/ InitCast) /\ [][NextComma \/ NextCast]_vars

(***************************************************************************)
(* Properties of PassParamsByRef                                            *)
(***************************************************************************)

Range(f) == {f[k] : k \in DOMAIN f}

\* How many warnings the pass has emitted for parameter i of declaration id.
WarningsFor(id, i) ==
    Cardinality({k \in DOMAIN report : report[k] = Warning(id, i)})

\* The traversal of the declaration in `last` is over.
Finished == last.outcome \in {"checked", "traversed"}

\* What the declaration in `last` may hold where the pass did not read it.
DetailsOfLast ==
    IF last.outcome = "checked" THEN {last.t} ELSE DeclDetails(last.d)

\* A declaration the pass is to skip: at an ignored location, deleted, a
\* function template specialization, an overriding method, or without a body.
ToBeSkipped(d) ==
    \/ d.ignored \/ d.deleted \/ d.templSpec \/ ~d.hasBody
    \/ (d.kind = "CXXMethod" /\ d.nOverridden > 0)

\* Parameter i is what a member initializer move-constructs from:
\* m(std::move(p)).
MovedInto(t, i) == MoveInit(i) \in Range(t.inits)

\* C1: for every function definition that is not skipped (free function,
\* non-overriding method, constructor) and every parameter p of it, exactly
\* one warning is emitted for p if and only if p's type is fat, p is not in
\* the exclusion set and p itself is not moved into a member by a member
\* initializer; otherwise none is.
C1_ExactlyOneWarningIffFat ==
    (Finished /\ ~ToBeSkipped(last.d)) =>
        \A t \in DetailsOfLast : \A i \in 1..last.d.nParams :
            WarningsFor(last.id, i) =
                IF /\ isFat(t.params[i])
                   /\ <<last.id, i>> \notin last.excl
                   /\ ~MovedInto(t, i)
                THEN 1 ELSE 0

\* C2: a parameter of a checked function that its body reassigns by
\* `p = ...` is never flagged, and no warning for a parameter of a function
\* is emitted while the traversal of that function is still in progress.
C2_ReassignedNeverFlagged ==
    /\ (last.outcome = "checked" =>
            \A p \in last.assigned : WarningsFor(p[1], p[2]) = 0)
    /\ \A k \in DOMAIN stack : \A i \in 1..stack[k].d.nParams :
            WarningsFor(stack[k].id, i) = 0

C2_Witness ==
    /\ last.outcome = "checked"
    /\ \E p \in last.assigned :
        /\ p[1] = last.id
        /\ isFat(last.t.params[p[2]])
        /\ ~FoundMove(last.d, last.t)
    /\ \E i \in 1..last.d.nParams : WarningsFor(last.id, i) = 1

\* C3: at the flagging decision of a checked function F the exclusion set
\* holds only parameters recorded during F's own traversal, nothing of what it
\* held when F's traversal started, and the warnings for F are decided by
\* what F's own traversal recorded.
C3_ExclusionsAreOwn ==
    /\ \A k \in DOMAIN stack :
            stack[k].checked => mParamExclusions \subseteq stack[k].rec
    /\ (last.outcome = "checked" =>
            /\ last.excl \subseteq last.rec
            /\ \A i \in 1..last.d.nParams :
                (WarningsFor(last.id, i) = 1) <=>
                    /\ isFat(last.t.params[i])
                    /\ <<last.id, i>> \notin last.rec
                    /\ ~FoundMove(last.d, last.t))

C3_Witness ==
    /\ last.outcome = "checked"
    /\ last.stale # {}
    /\ last.rec # {}
    /\ \E i \in 1..last.d.nParams : WarningsFor(last.id, i) = 1

\* C4: a fat constructor parameter p that a member initializer consumes by
\* std::move(p), as the single argument of the member's construction, is
\* never flagged.
C4_MovedParameterNotFlagged ==
    (Finished /\ last.d.kind = "CXXConstructor") =>
        \A t \in DetailsOfLast : \A i \in 1..last.d.nParams :
            (isFat(t.params[i]) /\ MovedInto(t, i)) =>
                WarningsFor(last.id, i) = 0

C4_Witness ==
    /\ last.outcome = "checked"
    /\ last.d.kind = "CXXConstructor"
    /\ \E i \in 1..last.d.nParams :
        /\ isFat(last.t.params[i])
        /\ MovedInto(last.t, i)
        /\ <<last.id, i>> \notin last.excl
        /\ WarningsFor(last.id, i) = 0

\* C5: for a function declaration that is at an ignored location, deleted, a
\* function template specialization, an overriding method or without a body,
\* the pass emits no diagnostic, does not traverse its subtree and leaves the
\* exclusion set and the in-function flag unchanged.
C5_SkippedDeclarationLeftAlone ==
    [][(nDecl' = nDecl + 1 /\ ToBeSkipped(last'.d)) =>
          UNCHANGED <<mbInsideFunctionDecl, mParamExclusions, stack, report>>]_vars

(***************************************************************************)
(* Properties of CommaOperator                                              *)
(***************************************************************************)

CommaVisited ==
    /\ plugin = "commaoperator"
    /\ pc = "done"
    /\ node.class = "BinaryOperator"

\* The comma is a statement of its own: the expression statement of a block
\* or the body of a loop or branch, directly or under the ExprWithCleanups of
\* its full expression.
StandsAsStatement(n) ==
    LET c == IF n.parent.kind = "ExprWithCleanups" THEN n.parent2 ELSE n.parent
    IN  c.role \in {"stmt", "body"}

\* C6: a comma expression at a non-ignored location whose parent statement is
\* a parenthesized expression, another binary operator, a for-statement, or
\* an ExprWithCleanups whose own parent is a for-statement gets no diagnostic.
C6_AcceptedParentsNotFlagged ==
    ( /\ CommaVisited
      /\ node.opcode = "BO_Comma"
      /\ ~node.ignored
      /\ \/ node.parent.kind \in {"ParenExpr", "BinaryOperator", "ForStmt"}
         \/ (node.parent.kind = "ExprWithCleanups"
                /\ node.parent2.kind = "ForStmt") )
        => diag = <<>>

C6_Witness ==
    /\ CommaVisited
    /\ node.opcode = "BO_Comma"
    /\ ~node.ignored
    /\ ~CommaMacroSuppressed(node)
    /\ node.parent.kind = "ExprWithCleanups"
    /\ node.parent2 = Ctx("ForStmt", "inc")
    /\ diag = <<>>

\* C7: a comma expression that stands as a statement of its own, whatever
\* statement encloses it, at a location that is neither ignored nor
\* macro-suppressed, gets exactly one warning "comma operator hides code" at
\* the operator location; a binary operator that is not a comma gets none.
C7_BareCommaStatementFlaggedOnce ==
    (CommaVisited /\ ~node.ignored /\ ~CommaMacroSuppressed(node)) =>
        /\ (node.opcode = "BO_Comma" /\ StandsAsStatement(node))
                => diag = <<CommaWarning>>
        /\ node.opcode # "BO_Comma" => diag = <<>>

(***************************************************************************)
(* Properties of RedundantCast                                              *)
(***************************************************************************)

CastVisited(class) ==
    /\ plugin = "redundantcast"
    /\ pc = "done"
    /\ node.class = class

SimplifyToStaticCast ==
    Diag("reinterpret_cast from %0 to %1 can be simplified to static_cast",
         <<node.sub.t, getType(node.tw)>>)

\* A reinterpret_cast from a void pointer to a pointer to an object type, at
\* a location that is not ignored.
FromVoidPointerToObjectPointer(n) ==
    /\ ~n.ignored
    /\ n.sub.t[1].k = "ptr"
    /\ n.sub.t[2].k = "void"
    /\ n.tw[1].k = "ptr"
    /\ n.tw[2].k \notin {"void", "function", "lref", "rref"}

\* C8: for a reinterpret_cast from a void pointer to a pointer to object type
\* at a non-ignored location either the token is rewritten to static_cast and
\* no diagnostic is emitted, or exactly one warning "can be simplified to
\* static_cast" is emitted and nothing is rewritten; the rewrite happens only
\* with a rewriter, the token at the resolved location reading
\* reinterpret_cast and the replacement succeeding; without a rewriter the
\* warning is always emitted.
C8_RewriteOrWarn ==
    (CastVisited("CXXReinterpretCastExpr")
            /\ FromVoidPointerToObjectPointer(node)) =>
        /\ \/ (rewrites = <<Replacement>> /\ diag = <<>>)
           \/ (rewrites = <<>> /\ diag = <<SimplifyToStaticCast>>)
        /\ rewrites # <<>> =>
              /\ env.rewriter
              /\ ResolvedToken(node) = "reinterpret_cast"
              /\ node.replaceText
        /\ ~env.rewriter => diag = <<SimplifyToStaticCast>>

C8_Witness ==
    /\ CastVisited("CXXReinterpretCastExpr")
    /\ FromVoidPointerToObjectPointer(node)
    /\ isMacroBodyExpansion(node.span.locStart)
    /\ rewrites = <<Replacement>>
    /\ diag = <<>>

\* An explicit cast between arithmetic types whose operand, parentheses and
\* implicit casts stripped, is an integer literal or an arithmetic operation.
ArithmeticType(t) == t[1].k \in {"bool", "int", "long", "double"}

ArithmeticCast(n) ==
    /\ n.class \in {"CXXStaticCastExpr", "CStyleCastExpr", "CXXFunctionalCastExpr"}
    /\ ~n.ignored
    /\ ArithmeticType(n.sub.t)
    /\ ArithmeticType(n.tw)
    /\ \/ Head(IgnoreParenImpCasts(n.sub.shape)) = "IntegerLiteral"
       \/ isArithmeticOp(n.sub.shape)

\* C9: an explicit cast (static_cast, C-style or functional) at a non-ignored
\* location whose types are arithmetic and whose operand is an integer
\* literal or an arithmetic operation gets no diagnostic, even when source
\* and target types are canonically equal.
C9_ArithmeticCastNotFlagged ==
    (CastVisited(node.class) /\ ArithmeticCast(node)) => diag = <<>>

\* C9 amended: such a cast gets no diagnostic, except that a static_cast whose
\* type as written has top-level qualifiers gets the one warning to remove
\* them.
C9_ArithmeticCastNotFlaggedAsRedundant ==
    (CastVisited(node.class) /\ ArithmeticCast(node)) =>
        IF node.class = "CXXStaticCastExpr" /\ (node.tw[1].c \/ node.tw[1].v)
        THEN /\ Len(diag) = 1
             /\ diag[1].msg = "in static_cast from %0 %1 to %2 %3, remove redundant top-level %select{const qualifier|volatile qualifier|const volatile qualifiers}4"
        ELSE diag = <<>>

C9_Witness ==
    /\ CastVisited("CXXStaticCastExpr")
    /\ ArithmeticCast(node)
    /\ getCanonicalType(node.sub.t) = getCanonicalType(node.tw)
    /\ node.sub.t = node.tw
    /\ diag = <<>>

\* The whole pattern is synthesized by a macro body whose spelling location
\* is ignored.
InIgnoredMacroBody(n) ==
    IF "operatorLoc" \in DOMAIN n
    THEN /\ isMacroBodyExpansion(n.locStart)
         /\ isMacroBodyExpansion(n.operatorLoc)
         /\ isMacroBodyExpansion(n.locEnd)
         /\ n.spellIgnored
    ELSE /\ isMacroBodyExpansion(n.span.locStart)
         /\ isMacroBodyExpansion(n.span.locEnd)
         /\ n.span.spellIgnored

\* C10: for every rule of RedundantCast and for CommaOperator, when start,
\* operator/expression and end location of the pattern are macro body
\* expansions and the spelling location is ignored, no diagnostic is emitted.
C10_MacroBodySuppressed ==
    (pc = "done" /\ InIgnoredMacroBody(node)) => diag = <<>>

\* C10 amended: that holds for the C-style cast rule of RedundantCast and for
\* CommaOperator.
C10_MacroBodySuppressedCStyleAndComma ==
    (pc = "done"
            /\ (node.class = "CStyleCastExpr" \/ plugin = "commaoperator")
            /\ InIgnoredMacroBody(node)) =>
        diag = <<>>

FileSpan == [locStart |-> FileLoc, locEnd |-> FileLoc, spellIgnored |-> FALSE]

C10_Witness ==
    /\ CastVisited("CStyleCastExpr")
    /\ ~node.ignored
    /\ InIgnoredMacroBody(node)
    /\ diag = <<>>
    /\ \A r \in VisitCStyleCastExprResults([node EXCEPT !.span = FileSpan]) :
            r.out # <<>>

\* What a visit of node n returns, whichever pass visits it.
VisitResults(n, e) ==
    IF n.class = "CallExpr" THEN VisitCallExprResults(n)
    ELSE IF n.class = "CXXDeleteExpr" THEN VisitCXXDeleteExprResults(n)
    ELSE IF n \in PointerBinaryOperators
    THEN (IF n.opcode \in PointerOpcodes THEN visitBinOpResults(n)
          ELSE {Result(<<>>, FALSE)})
    ELSE IF n.class = "BinaryOperator" THEN VisitBinaryOperatorResults(n)
    ELSE IF n.class = "CStyleCastExpr" THEN VisitCStyleCastExprResults(n)
    ELSE IF n.class = "CXXStaticCastExpr" THEN VisitCXXStaticCastExprResults(n)
    ELSE IF n.class = "CXXReinterpretCastExpr"
    THEN VisitCXXReinterpretCastExprResults(n, e)
    ELSE IF n.class = "CXXConstCastExpr" THEN VisitCXXConstCastExprResults(n)
    ELSE IF n.class = "CXXFunctionalCastExpr"
    THEN VisitCXXFunctionalCastExprResults(n)
    ELSE VisitImplicitCastExprResults(n)

\* The same pattern written outside of any macro.
OutsideMacros(n) ==
    IF "operatorLoc" \in DOMAIN n
    THEN [n EXCEPT !.locStart = FileLoc, !.operatorLoc = FileLoc,
                   !.locEnd = FileLoc, !.spellIgnored = FALSE]
    ELSE IF n.class = "CXXStaticCastExpr"
    THEN [n EXCEPT !.span = FileSpan, !.macroName = "other"]
    ELSE IF n.class = "CXXFunctionalCastExpr"
    THEN [n EXCEPT !.span = FileSpan, !.macroName = "other",
                   !.subLocEndMacro = FALSE, !.subLocStart = <<>>]
    ELSE [n EXCEPT !.span = FileSpan]

\* The pattern otherwise matches: written outside of any macro it is reported.
OtherwiseMatches(n, e) ==
    \A r \in VisitResults(OutsideMacros(n), e) :
        ~r.crashed /\ (r.out # <<>> \/ r.rw # <<>>)

\* The pattern is left unreported.  An implicit cast carries several patterns
\* (the const_casts under it and the cast that ends them): one of them is
\* left unreported when a warning given outside of macros is missing.
Unreported ==
    IF node.class = "ImplicitCastExpr"
    THEN \E r \in VisitImplicitCastExprResults(OutsideMacros(node)) :
            \E i \in DOMAIN r.out : r.out[i] \notin Range(diag)
    ELSE diag = <<>> /\ rewrites = <<>>

MacroGrounds(n) ==
    IF n \in CallExprs \cup CXXDeleteExprs \cup PointerBinaryOperators THEN FALSE
    ELSE IF "operatorLoc" \in DOMAIN n THEN InIgnoredMacroBody(n)
    ELSE IF n.class = "CStyleCastExpr"
    THEN /\ n.span.locStart.body
         /\ n.span.locEnd.body
         /\ n.span.spellIgnored
    ELSE IF n.class = "CXXStaticCastExpr"
    THEN /\ n.sub.t[1].k = "bool" /\ n.tw[1].k = "bool"
         /\ n.span.locStart = BodyLoc
         /\ n.macroName = "assert"
    ELSE IF n.class = "CXXFunctionalCastExpr"
    THEN \/ (n.span.locStart.args > 0 /\ n.macroName = "CPPUNIT_ASSERT")
         \/ /\ n.subLocEndMacro
            /\ \E i \in DOMAIN n.subLocStart :
                  /\ n.subLocStart[i].name = "FD_ISSET"
                  /\ \A j \in 1..i : n.subLocStart[j].atStart
    ELSE IF n.class = "ImplicitCastExpr"
    THEN /\ n.castKind = "CK_BitCast"
         /\ n.e.class = "CXXStaticCastExpr"
         /\ n.e.subVoidPointer
         /\ n.span.locStart = BodyLoc
    ELSE FALSE

IsFatCalled ==
    /\ pc = "done"
    /\ node.class = "QualType"

\* C12: isFat(T) is false for every incomplete type T, whatever its name and
\* namespace.
C12_IncompleteNeverFat ==
    (IsFatCalled /\ node.type.incomplete) => ret = "false"

\* C12 amended: isFat(T) is false for every incomplete type T that is not on
\* the allow-list; an incomplete record type on the allow-list is fat.
C12_IncompleteFatIffAllowListed ==
    (IsFatCalled /\ node.type.incomplete) =>
        (ret = "true" <=> (node.type.record /\ node.type.name \in AllowList))

\* An incomplete record type that is not on the allow-list, whatever size
\* its layout would have, is not fat.
C12_Witness ==
    /\ IsFatCalled
    /\ node.type.incomplete
    /\ node.type.record
    /\ node.type.name = "rtl::OUStringBuffer"
    /\ node.type.size = 128
    /\ ret = "false"

\* C13: isFat(T) is true exactly when T is a record type that is on the
\* allow-list or is complete with a size greater than 64; a type that is no
\* record type and a complete record of size 64 or less that is not on the
\* allow-list are not fat.
C13_FatExactly ==
    IsFatCalled =>
        /\ ret = "true" <=>
              /\ node.type.record
              /\ \/ node.type.name \in
                       {"com::sun::star::uno::Reference",
                        "com::sun::star::uno::Sequence", "rtl::OString",
                        "rtl::OUString", "rtl::Reference"}
                 \/ (~node.type.incomplete /\ node.type.size > 64)
        /\ ~node.type.record => ret = "false"
        /\ (node.type.record /\ ~node.type.incomplete /\ node.type.size <= 64
                /\ node.type.name \in {"Small", "ns::rtl::OUString", "rtl::OUStringBuffer"})
              => ret = "false"

\* A complete record of size 64 that is not on the allow-list is not fat, and
\* isFat has returned.
C13_Witness ==
    /\ IsFatCalled
    /\ node.type = [record |-> TRUE, name |-> "Small", incomplete |-> FALSE,
                    size |-> 64]
    /\ ret = "false"

\* The diagnostics a step has added to the report.
Emitted == SubSeq(report', Len(report) + 1, Len(report'))

\* C14: the diagnostics the pass emits for a function F are warnings in
\* ascending parameter order; each warning is immediately followed by exactly
\* one note 'function is declared here:' for F when the location of F's
\* canonical declaration differs from that of F, and by no note when they
\* coincide; no note stands anywhere else.
C14_NoteFollowsWarning ==
    [][report' # report =>
        LET new == Emitted
            id  == last'.id
            canonElsewhere == last'.t.canonElsewhere
        IN  /\ \A k \in DOMAIN new : new[k].decl = id
            /\ new[1].sev = "Warning"
            /\ \A k \in DOMAIN new :
                  new[k].sev = "Warning" =>
                      IF canonElsewhere
                      THEN /\ k < Len(new)
                           /\ new[k + 1] = Note(id)
                           /\ k + 2 <= Len(new) => new[k + 2].sev = "Warning"
                      ELSE k < Len(new) => new[k + 1].sev = "Warning"
            /\ \A k \in DOMAIN new :
                  new[k].sev = "Note" => (k > 1 /\ new[k - 1].sev = "Warning")
            /\ \A j, k \in DOMAIN new :
                  (j < k /\ new[j].sev = "Warning" /\ new[k].sev = "Warning")
                      => new[j].parm < new[k].parm]_vars

\* Both parameters of a function declared elsewhere have been reported, each
\* warning with its note.
C14_Witness ==
    /\ last.outcome = "checked"
    /\ last.t.canonElsewhere
    /\ Len(report) >= 4
    /\ SubSeq(report, Len(report) - 3, Len(report))
          = <<Warning(last.id, 1), Note(last.id), Warning(last.id, 2),
              Note(last.id)>>

\* C15: when the language is not C++, RedundantCast visits no node, emits no
\* diagnostic and requests no rewrite.
C15_NothingOutsideCPlusPlus ==
    (plugin = "redundantcast" /\ ~env.cplusplus) =>
        /\ pc \in {"start", "returned"}
        /\ ret = "none"
        /\ diag = <<>>
        /\ rewrites = <<>>

\* The pass has run over a cast it reports in C++ and has returned.
C15_Witness ==
    /\ plugin = "redundantcast"
    /\ ~env.cplusplus
    /\ pc = "returned"
    /\ node.class = "CStyleCastExpr"
    /\ OtherwiseMatches(node, env)
    /\ diag = <<>>

UnderNoOpCast ==
    /\ CastVisited("ImplicitCastExpr")
    /\ ~node.ignored
    /\ node.castKind = "CK_NoOp"
    /\ node.chain # <<>>

ConstCastIsNoOp(e) ==
    /\ getCanonicalType(getType(e.tw)) = getCanonicalType(e.sub.t)
    /\ getValueKind(e.tw) = "VK_XValue" => e.sub.k = "VK_XValue"

ImplicitlyCastTo(d) ==
    d.msg = "redundant const_cast from %0 to %1, result is implicitly cast to %2"

\* C17: a const_cast that is not itself a no-op and whose result a no-op
\* implicit cast re-qualifies to a type its operand could have been converted
\* to directly (the same type, or by a qualification conversion from the
\* operand type to a type that differs from the const_cast's own result
\* type) gets exactly one warning 'redundant const_cast ... result is
\* implicitly cast to', located at the const_cast; a const_cast that is a
\* no-op never gets this warning.
C17_ImplicitlyRequalifiedConstCast ==
    UnderNoOpCast =>
        LET e  == node.chain[1]
            t1 == getCanonicalType(getSubExprType(e.sub))
            t2 == getCanonicalType(getType(e.tw))
            t3 == getCanonicalType(node.t)
        IN  /\ (/\ ~ConstCastIsNoOp(e)
                /\ \/ t1 = t3
                   \/ (IsQualificationConversion(t1, t3) /\ t2 # t3)) =>
                    /\ Len(diag) = 1
                    /\ ImplicitlyCastTo(diag[1])
                    /\ diag[1].loc = "cc1.getExprLoc"
            /\ ConstCastIsNoOp(e) =>
                    \A i \in DOMAIN diag : ~ImplicitlyCastTo(diag[i])

\* const_cast<volatile record *>(p) of a record * p, converted to a
\* const volatile record *: a qualification conversion would have done.
C17_Witness ==
    /\ UnderNoOpCast
    /\ getSubExprType(node.chain[1].sub) = Ptr(Plain("record"))
    /\ node.chain[1].tw = Ptr(Volatile(Plain("record")))
    /\ node.t = Ptr(Const(Volatile(Plain("record"))))
    /\ Len(diag) = 1
    /\ ImplicitlyCastTo(diag[1])

\* C18: a comma operator is suppressed by the macro heuristic exactly when
\* its start, operator and end locations are all macro body expansions and
\* the spelling location of the operator is ignored; otherwise the parent
\* rule decides: it is flagged unless its parent is accepted.
C18_CommaMacroHeuristic ==
    (CommaVisited /\ ~node.ignored /\ node.opcode = "BO_Comma") =>
        /\ InIgnoredMacroBody(node) => diag = <<>>
        /\ ~NullParent2(node) =>
              (diag = <<>> <=> (InIgnoredMacroBody(node) \/ AcceptedParent(node)))

\* A comma whose start and operator are in the body of a macro from an ignored
\* header, but whose end is not, is flagged.
C18_Witness ==
    /\ CommaVisited
    /\ node.opcode = "BO_Comma"
    /\ isMacroBodyExpansion(node.locStart)
    /\ isMacroBodyExpansion(node.operatorLoc)
    /\ ~isMacroBodyExpansion(node.locEnd)
    /\ node.spellIgnored
    /\ diag = <<CommaWarning>>

\* C19: every Visit function returns true on every path (match, no match,
\* ignored or suppressed), so that the traversal goes on to the remaining
\* nodes: no visit ends otherwise than by returning true.
C19_EveryVisitContinues ==
    /\ pc \in {"start", "done", "returned"}
    /\ (pc = "done" /\ node # NoNode) => ret = "true"

\* C20: for a comma whose parent is an ExprWithCleanups that has no parent
\* statement, CommaOperator still decides and goes on, the absent grandparent
\* counting as 'not a for statement': the comma is flagged and the visit
\* returns true.
C20_AbsentGrandparentIsNoForStmt ==
    (/\ plugin = "commaoperator"
     /\ pc # "start"
     /\ ~node.ignored
     /\ node.opcode = "BO_Comma"
     /\ ~InIgnoredMacroBody(node)
     /\ NullParent2(node)) =>
        /\ pc = "done"
        /\ ret = "true"
        /\ diag = <<CommaWarning>>

GateCalled ==
    /\ pc = "done"
    /\ node.class = "ArithmeticCastArgs"

\* An arithmetic operation as the claim words it: parentheses and implicit
\* casts stripped, a binary arithmetic, bitwise or shift operator, a unary
\* operator, a conditional operator, or a comma whose right operand is one.
RECURSIVE ArithmeticOperation(_)
ArithmeticOperation(e) ==
    IF Head(e) \in {"ParenExpr", "ImplicitCastExpr"}
    THEN ArithmeticOperation(Tail(e))
    ELSE IF Head(e) = "BO_Comma" THEN ArithmeticOperation(Tail(e))
    ELSE Head(e) \in {"BO_Mul", "BO_Div", "BO_Rem", "BO_Add", "BO_Sub",
                      "BO_Shl", "BO_Shr", "BO_And", "BO_Xor", "BO_Or",
                      "UnaryOperator", "ConditionalOperator",
                      "BinaryConditionalOperator"}

RECURSIVE StripParenImpCasts(_)
StripParenImpCasts(e) ==
    IF Head(e) \in {"ParenExpr", "ImplicitCastExpr"}
    THEN StripParenImpCasts(Tail(e))
    ELSE Head(e)

GateRefuses(literals) ==
    /\ node.t1[1].k \in {"bool", "int", "long", "double"}
    /\ \/ (node.t1 # node.t2 /\ (node.t1[1].td # "" \/ node.t2[1].td # ""))
       \/ ArithmeticOperation(node.subExpr)
       \/ StripParenImpCasts(node.subExpr) \in literals

C22_ExcludedIffAssigned ==
    last.outcome = "checked" =>
        \A i \in 1..last.d.nParams :
            <<last.id, i>> \in last.excl
                <=> <<last.id, i>> \in last.assigned \cup last.compound

\* The static_cast rule has dealt with the node, whatever became of the visit.
StaticCastReached ==
    /\ plugin = "redundantcast"
    /\ pc # "start"
    /\ node.class = "CXXStaticCastExpr"

IsRedundantMsg(d) ==
    d.msg = "static_cast from %0 %1 to %2 %3 is redundant%select{| or should be written as an explicit construction of a temporary}4"

ShouldBeConstCastMsg(d) ==
    d.msg = "static_cast from %0 %1 to %2 %3 should be written as const_cast"

TopLevelQualifierMsg(d) ==
    d.msg = "in static_cast from %0 %1 to %2 %3, remove redundant top-level %select{const qualifier|volatile qualifier|const volatile qualifiers}4"

\* C23: a static_cast is never reported 'is redundant' when its result is an
\* xvalue and its operand is not, nor when its result is an lvalue and its
\* operand is an xvalue.
C23_RedundantOnlyIfImplicitTransition ==
    (/\ StaticCastReached
     /\ \/ (node.tw[1].k = "rref" /\ node.sub.k # "VK_XValue")
        \/ (node.tw[1].k = "lref" /\ node.sub.k = "VK_XValue")) =>
        \A i \in DOMAIN diag : ~IsRedundantMsg(diag[i])

\* static_cast<record &&>(r) of an lvalue r of the same type goes unreported.
C23_Witness ==
    /\ StaticCastReached
    /\ pc = "done"
    /\ ~node.ignored
    /\ node.tw = RRef(Plain("record"))
    /\ node.sub.t = Plain("record")
    /\ node.sub.k = "VK_LValue"
    /\ diag = <<>>

\* The type as written is a qualified object type that is neither a class
\* nor an array type.
QualifiedNonClassObject(tw) ==
    /\ tw[1].k \notin {"lref", "rref", "function", "void", "record", "array"}
    /\ (tw[1].c \/ tw[1].v)

\* C27: the static_cast rule emits at most one diagnostic for a static_cast;
\* it is 'remove redundant top-level qualifier' when the type as written is a
\* qualified non-class object type, otherwise 'should be written as
\* const_cast' (given for types that differ), otherwise 'is redundant' (given
\* for types that are the same).
C27_OneMessageByPriority ==
    StaticCastReached =>
        LET c1 == getCanonicalType(node.sub.t)
            c3 == getCanonicalType(getType(node.tw))
        IN  /\ Len(diag) <= 1
            /\ \A i \in DOMAIN diag :
                  /\ \/ TopLevelQualifierMsg(diag[i])
                     \/ ShouldBeConstCastMsg(diag[i])
                     \/ IsRedundantMsg(diag[i])
                  /\ TopLevelQualifierMsg(diag[i])
                        <=> QualifiedNonClassObject(node.tw)
                  /\ ShouldBeConstCastMsg(diag[i]) => c1 # c3
                  /\ IsRedundantMsg(diag[i]) =>
                        getUnqualifiedType(c1) = getUnqualifiedType(c3)
            /\ (QualifiedNonClassObject(node.tw) /\ ~node.ignored /\ pc = "done")
                  => Len(diag) = 1

\* static_cast<const int>(i) of a const int i: only the qualifier is reported,
\* although the types are the same.
C27_Witness ==
    /\ StaticCastReached
    /\ pc = "done"
    /\ node.tw = Const(Plain("int"))
    /\ node.sub.t = Const(Plain("int"))
    /\ node.sub.shape = <<"DeclRefExpr">>
    /\ Len(diag) = 1
    /\ TopLevelQualifierMsg(diag[1])

\* A const_cast over a static_cast has been visited.
OverStaticCast ==
    /\ CastVisited("CXXConstCastExpr")
    /\ ~node.ignored
    /\ node.dce # NoDce

CombinationMsg(d) ==
    d.msg = "redundant static_cast/const_cast combination from %0 via %1 to %2"

\* Level d of the three types is reached with all of them pointers above it
\* (a source of type nullptr_t stays where it is), and there the static_cast
\* has a qualifier that the const_cast has not and the source has not or is
\* nullptr_t.
QualifierCastAwayAt(d, t1, t2, t3) ==
    LET isNullptr == t1[1].k = "nullptr_t"
        s(j) == IF isNullptr THEN t1[1] ELSE t1[j]
    IN  /\ d <= Len(t2) /\ d <= Len(t3) /\ (isNullptr \/ d <= Len(t1))
        /\ \A j \in 1..(d - 1) :
              /\ t2[j].k = "ptr" /\ t3[j].k = "ptr"
              /\ isNullptr \/ t1[j].k = "ptr"
        /\ \/ (t2[d].c /\ ~t3[d].c /\ (isNullptr \/ ~s(d).c))
           \/ (t2[d].v /\ ~t3[d].v /\ (isNullptr \/ ~s(d).v))

\* C24: for a const_cast that is not itself a no-op and whose operand is a
\* static_cast, the warning 'redundant static_cast/const_cast combination' is
\* emitted exactly when the lock-step walk down the pointer levels of the
\* original source type, the static_cast's type and the const_cast's type
\* reaches a level at which the static_cast's type is const (volatile), the
\* const_cast's is not and the source is not or is nullptr_t; at most one such
\* warning is emitted.
C24_CombinationExactly ==
    (OverStaticCast /\ ~ConstCastIsNoOp(node)) =>
        LET t1 == getCanonicalType(node.dce.subt)
            t2 == getCanonicalType(getType(node.dce.tw))
            t3 == getCanonicalType(getType(node.tw))
        IN  /\ Len(diag) <= 1
            /\ (diag # <<>> /\ CombinationMsg(diag[1]))
                  <=> \E d \in 1..Len(t2) : QualifierCastAwayAt(d, t1, t2, t3)

\* const_cast<int **>(static_cast<int const **>(p)): the qualifier the
\* static_cast adds at the second level is cast away again.
C24_Witness ==
    /\ OverStaticCast
    /\ node.dce.tw = Ptr(Ptr(Const(Plain("int"))))
    /\ node.tw = Ptr(Ptr(Plain("int")))
    /\ Len(diag) = 1
    /\ CombinationMsg(diag[1])

\* An implicit conversion to a void pointer, or of a pointer to a derived
\* class to a pointer to a base class, has been visited.
PointerConversionVisited ==
    /\ CastVisited("ImplicitCastExpr")
    /\ ~node.ignored
    /\ node.castKind \in {"CK_BitCast", "CK_DerivedToBase",
                          "CK_UncheckedDerivedToBase"}
    /\ node.t[1].k = "ptr"
    /\ node.castKind = "CK_BitCast" => (node.t[2].k = "void" /\ node.subPointer)

UltimatelyMsg(d) ==
    d.msg = "redundant const_cast from %0 to %1, result is ultimately implicitly cast to %2"

\* The pointee of the implicit cast's type is at least as qualified as the
\* pointee of the operand of const_cast i of the chain.
TargetCoversOperand(i) ==
    LET operand == getSubExprType(node.chain[i].sub)
    IN  /\ operand[2].c => node.t[2].c
        /\ operand[2].v => node.t[2].v

\* C25: under an implicit cast to a void pointer or an implicit
\* derived-to-base pointer conversion over a chain of n directly nested
\* const_casts, each const_cast of the chain is reported 'result is
\* ultimately implicitly cast to' exactly when the pointee of the implicit
\* cast's type is at least as qualified as the pointee of that const_cast's
\* operand; the warnings come outermost first and number at most n.
C25_ChainReportedExactly ==
    PointerConversionVisited =>
        LET ult == { k \in DOMAIN diag : UltimatelyMsg(diag[k]) }
            n   == Len(node.chain)
        IN  /\ Cardinality(ult) <= n
            /\ \A i \in 1..n :
                  (\E k \in ult : diag[k].loc = CcLoc(i)) <=> TargetCoversOperand(i)
            /\ \A k \in ult : \E i \in 1..n : diag[k].loc = CcLoc(i)
            /\ \A j, k \in ult : \A a, b \in 1..n :
                  (j < k /\ diag[j].loc = CcLoc(a) /\ diag[k].loc = CcLoc(b))
                      => a < b

\* Both const_casts of a chain of two are reported, the outer one first, and
\* a third warning concerns the cast under them.
C25_Witness ==
    /\ PointerConversionVisited
    /\ Len(node.chain) = 2
    /\ Len(diag) = 3
    /\ UltimatelyMsg(diag[1]) /\ diag[1].loc = CcLoc(1)
    /\ UltimatelyMsg(diag[2]) /\ diag[2].loc = CcLoc(2)

\* A call, a delete expression or a binary operator has been visited at a
\* location that is not ignored.
ErasingContextVisited ==
    /\ plugin = "redundantcast"
    /\ pc = "done"
    /\ node \in CallExprs \cup CXXDeleteExprs \cup PointerBinaryOperators
    /\ ~node.ignored

\* The operand is a const_cast under nothing but parentheses and implicit
\* casts.
ThroughParensAndImplicitCasts(o) ==
    /\ o.shape[Len(o.shape)] = "CXXConstCastExpr"
    /\ \A j \in 1..(Len(o.shape) - 1) :
          o.shape[j] \in {"ParenExpr", "ImplicitCastExpr"}

\* The arguments of a call that stand in an erasing context: pointer-typed
\* const_casts passed to a variadic callee past its declared parameters.
ErasedArgs(n) ==
    { i \in DOMAIN n.args :
        /\ n.direct /\ n.variadic
        /\ i > n.numParams
        /\ n.args[i].pointer
        /\ ThroughParensAndImplicitCasts(n.args[i]) }

\* C26: a const_cast reached through parentheses and implicit casts is
\* reported once per erasing context in which it stands: as a pointer-typed
\* argument of a call of a variadic callee at an index at or beyond the
\* callee's declared parameter count, as the operand of delete, or as either
\* operand of a pointer comparison (<, >, <=, >=, ==, !=) or subtraction
\* whose operands are both pointers, the left operand before the right one
\* and the message saying 'subtraction' exactly for subtraction; a const_cast
\* in a declared parameter position is not reported, and nothing else is.
C26_ReportedOncePerErasingContext ==
    ErasingContextVisited =>
        IF node.class = "CallExpr"
        THEN /\ Len(diag) = Cardinality(ErasedArgs(node))
             /\ \A i \in ErasedArgs(node) :
                   \E k \in DOMAIN diag : diag[k].loc = ArgLoc(i)
             /\ \A k \in DOMAIN diag :
                   /\ diag[k].msg = "redundant const_cast of variadic function argument"
                   /\ \E i \in ErasedArgs(node) : diag[k].loc = ArgLoc(i)
        ELSE IF node.class = "CXXDeleteExpr"
        THEN IF ThroughParensAndImplicitCasts(node.argument)
             THEN /\ Len(diag) = 1
                  /\ diag[1].msg = "redundant const_cast in delete expression"
                  /\ diag[1].loc = "getArgument.getExprLoc"
             ELSE diag = <<>>
        ELSE LET both == /\ node.opcode \in {"BO_LT", "BO_GT", "BO_LE", "BO_GE",
                                             "BO_EQ", "BO_NE", "BO_Sub"}
                         /\ node.lhs.pointer /\ node.rhs.pointer
                 l == both /\ ThroughParensAndImplicitCasts(node.lhs)
                 r == both /\ ThroughParensAndImplicitCasts(node.rhs)
                 onLhs(d) ==
                     /\ d.msg = "redundant const_cast on lhs of pointer %select{comparison|subtraction}0 expression"
                     /\ d.loc = "getLHS.getExprLoc"
                     /\ d.args = <<node.opcode = "BO_Sub">>
                 onRhs(d) ==
                     /\ d.msg = "redundant const_cast on rhs of pointer %select{comparison|subtraction}0 expression"
                     /\ d.loc = "getRHS.getExprLoc"
                     /\ d.args = <<node.opcode = "BO_Sub">>
             IN  /\ Len(diag) = (IF l THEN 1 ELSE 0) + (IF r THEN 1 ELSE 0)
                 /\ l => onLhs(diag[1])
                 /\ r => onRhs(diag[Len(diag)])

\* A variadic callee with one declared parameter is passed two pointer-typed
\* const_casts: the one past the declared parameter is reported, the other
\* is not.
C26_Witness ==
    /\ ErasingContextVisited
    /\ node.class = "CallExpr"
    /\ node.numParams = 1
    /\ Len(node.args) = 2
    /\ \A i \in 1..2 : node.args[i].pointer
    /\ node.args[1].shape = <<"CXXConstCastExpr">>
    /\ node.args[2].shape = <<"ImplicitCastExpr", "ParenExpr", "CXXConstCastExpr">>
    /\ Len(diag) = 1
    /\ diag[1].loc = ArgLoc(2)

\* The traversal of a chain of commas is over, at a location that is not
\* ignored.
ChainTraversed ==
    /\ plugin = "commaoperator"
    /\ pc = "done"
    /\ node.class = "CommaChain"
    /\ ~node.commas[1].ignored

\* C28: a chain of k commas written as one expression statement at a
\* location that is not ignored gets exactly one warning 'comma operator
\* hides code', for the outermost comma; no inner comma is flagged.
C28_OneWarningPerChain ==
    ChainTraversed =>
        /\ \A i \in 2..Len(node.commas) :
              node.commas[i].parent.kind = "BinaryOperator"
        /\ diag = <<[comma |-> 1, d |-> CommaWarning]>>

\* The same with the statements the code gives no warning for left aside:
\* the body of a for statement and a macro body whose spelling location is
\* ignored.
ChainFlaggedOnceOutsideForBody ==
    (/\ ChainTraversed
     /\ ~CommaMacroSuppressed(node.commas[1])
     /\ node.commas[1].parent.kind # "ForStmt"
     /\ node.commas[1].parent2.kind # "ForStmt") =>
        /\ \A i \in 2..Len(node.commas) :
              node.commas[i].parent.kind = "BinaryOperator"
        /\ diag = <<[comma |-> 1, d |-> CommaWarning]>>

\* A chain of three commas that is the body of a for statement gets no
\* warning at all.
ForBodyChainUnflagged ==
    /\ ChainTraversed
    /\ Len(node.commas) = 3
    /\ ~CommaMacroSuppressed(node.commas[1])
    /\ node.commas[1].parent = Ctx("ForStmt", "body")
    /\ diag = <<>>

\* C29: while the body of a checked function F is being traversed the
\* in-function flag is true and what has been recorded for F is in the
\* exclusion set, up to F's flagging decision, also after a declaration
\* nested in F's body has been traversed; the flag is false whenever no
\* checked function is being traversed.
C29_FlagAndExclusionsKept ==
    /\ \A k \in DOMAIN stack :
          stack[k].checked =>
              /\ mbInsideFunctionDecl
              /\ stack[k].rec \subseteq mParamExclusions
    /\ (\A k \in DOMAIN stack : ~stack[k].checked) => ~mbInsideFunctionDecl
    /\ last.outcome = "checked" => last.rec \subseteq last.excl

\* The traversal is back in the body of a checked function F, after a member
\* function with a body nested in it has been traversed, and an assignment
\* recorded for F before is still in the exclusion set.
C29_Witness ==
    /\ Len(stack) = 1
    /\ stack[1].checked
    /\ last.outcome = "traversed"
    /\ last.id > stack[1].id
    /\ last.d.hasBody
    /\ \E p \in stack[1].rec : p[1] = stack[1].id /\ p \in mParamExclusions
    /\ mbInsideFunctionDecl

\* The walk taken one iteration at a time ends with the answer the visit of
\* the const_cast acts on.
WalkAgreesWithVisit ==
    (pc = "done" /\ node.class = "QualifierWalk") =>
        node.redundant =
            RedundantCombination(node.from, node.from[1].k = "nullptr_t",
                                 node.via, node.to)

\* C30: the lock-step qualifier walk of the static_cast/const_cast rule
\* terminates for every triple of types of finite pointer depth, also when
\* the source is nullptr_t and its type is not stepped down, and the walk
\* over nested const_casts terminates for every finite expression.
C30_WalksTerminate == <>(pc = "done")

\* The walk has ended for a source of type nullptr_t after having stepped
\* the other two types down two pointer levels.
C30_Witness ==
    /\ plugin = "redundantcast"
    /\ pc = "done"
    /\ node.class = "QualifierWalk"
    /\ node.from = Plain("nullptr_t")
    /\ node.isNullptr
    /\ Len(node.via) = 3
    /\ Len(node.t2) = 1
    /\ Len(node.t3) = 1

====
